---- MODULE Spec2Model ----
(***************************************************************************)
(* Transition engine of react-3d-slideshow: the useSlideshow control       *)
(* surface feeding one style instance (cube, cascade or glitch), the       *)
(* texture-load barrier and the per-frame callback of each style.          *)
(*                                                                         *)
(* Numbers are fixed point: progress, eased values and rotations are in    *)
(* thousandths (One = 1.0); frame deltas are in milliseconds; shader       *)
(* amounts are in millionths.  A texture is named by the index of the      *)
(* slide it was loaded for; NoTexture is an unset material map.            *)
(***************************************************************************)
EXTENDS Integers, Sequences, FiniteSets, TLC

\* ---------------------------------------------------------------- bounds
NumSlides == 4
MaxSlideCount == 6
MaxCalls == 3
GridRows == 2
GridCols == 3
LoadSlides == 2
MaxAspect == 4
MaxTiles == 10

\* ------------------------------------------------------------- constants
One == 1000
TransitionDuration == 800
AnimationSpeedTenths == 15
CascadeSpeedFactorTenths == 8
WaveSpread == 700
AberrationBase == 300
ShaderBypassThreshold == 1000
SwapPoint == 500

NoTexture == 0 - 1
Slides == 0 .. (NumSlides - 1)
InitialSlides == {0, 1}
Deltas == {200, 400, 2000}
Intensities == {0, 500, 1000}
Styles == {"cube", "cascade", "glitch"}
Tiles == (0 .. (GridRows - 1)) \X (0 .. (GridCols - 1))
Grey == "#333"
NoColour == "undefined"
DeclaredColours == {"#c00"}
LoadList == 0 .. (LoadSlides - 1)
Threshold == 50
IntervalTicks == 2
NoTimer == 0 - 1
NoPending == 0 - 1
NoX == 0 - 1
Positions == {0, 50, 120}
Runs == {0, 1}
Widgets == {1, 2}

VARIABLES
  style,               \* Scene: which transition component is mounted
  initialSlide,        \* useSlideshow option / currentIndex at mount
  aberrationIntensity, \* glitch prop, thousandths
  currentIndex,        \* useSlideshow state
  direction,           \* useSlideshow state: "next" | "prev"
  isReady,             \* textures loaded and the loaded tree rendered
  displayedIndex,      \* displayedIndexRef (cube, cascade)
  targetIndex,         \* targetIndexRef (cube, cascade)
  animationDirection,  \* animationDirectionRef (cube, cascade)
  prevIndex,           \* prevIndexRef (glitch)
  isAnimating,         \* animStateRef.isAnimating / isAnimatingRef
  progress,            \* animStateRef.progress / animationProgressRef / progressRef
  currentTexture,      \* cube current plane map, cascade front faces, glitch uCurrentTexture
  nextTexture,         \* cube next plane map, cascade +X/-X faces, glitch uNextTexture
  nextPlaneVisible,    \* cube: nextPlaneRef.visible
  rotationAxis,        \* cube: animStateRef.rotationAxis, "x" | "y"
  rotationAngle,       \* cube: animStateRef.rotationAngle in degrees, 90 | -90
  pivotRotation,       \* cube: pivot rotation, signed thousandths of a quarter turn
  tileRotation,        \* cascade: mesh.rotation.y per tile, signed thousandths of a quarter turn
  uShowNext,           \* glitch uniform
  uAberrationAmount,   \* glitch uniform, millionths
  nextCalls,           \* history: next() calls made
  prevCalls,           \* history: prev() calls made
  goToCalls,           \* history: goTo() calls made
  earlyCalls,          \* history: some call was made before the load barrier
  visited,             \* history: the values displayedIndex was committed to, in order
  loop,                \* useSlideshow option
  onSlideChange,       \* useSlideshow option: identity of the callback, "none" when absent
  onSlideChangeCalls,  \* history: the arguments onSlideChange was invoked with, in order
  mounted,             \* the transition component is mounted
  slides,              \* slides prop: per position the slide's image and backgroundColor
  loads,               \* per run of the load effect: the promises of its slides
  textureData,         \* textureDataRef.current / texturesRef.current / textureData state
  disposed,            \* the textures dispose() was called on
  onReadyCalls,        \* history: invocations of the onReady prop
  webglSupported,      \* isWebGLSupported's module cache: {} is null, else {value}
  probes,              \* history: what each execution of the canvas probe met
  returned,            \* history: the values isWebGLSupported() returned, in order
  widgets,             \* per Slideshow instance: its gate state
  layout,              \* the last geometry helper applied: its arguments and result
  swipeEnabled,        \* useSwipe option enabled
  startX,              \* useSwipe startX ref, NoX when null
  endX,                \* useSwipe endX ref, NoX when null
  isDragging,          \* useSwipe isDragging ref
  swipeCalls,          \* history: the swipe callbacks invoked, in order
  gesture,             \* history: the events since the last start event
  keyboardMounted,     \* a component using useKeyboard is mounted
  keyboardEnabled,     \* useKeyboard option enabled
  onNext,              \* identity of the onNext option of the last render
  onPrev,              \* identity of the onPrev option of the last render
  listeners,           \* the keydown listeners registered on window
  lastKey,             \* history: the last keydown event and the callbacks it invoked
  keyCount,            \* history: number of keydown events dispatched
  autoPlay,            \* useSlideshow option autoPlay
  isPaused,            \* useSlideshow state isPaused
  pauseOnHover,        \* useSlideshow option pauseOnHover
  intervalAge,         \* time since the live interval was created or last fired, NoTimer when none is live
  activeFor,           \* history: time with autoPlay on and not paused, modulo the interval
  sweep,               \* a cube over a list of any length: slide count, displayed index, last two steps started
  pendingIndex,        \* currentIndex after the state updaters queued since the last render, NoPending when none
  pendingDirection,    \* direction set since the last render
  list                 \* useSlideshow over a replaceable list: totalSlides, currentIndex, direction, loop

autoplayVars == << autoPlay, isPaused, pauseOnHover, intervalAge, activeFor >>

hookVars == << loop, onSlideChange, onSlideChangeCalls, autoplayVars >>

loaderVars == << mounted, slides, loads, textureData, disposed, onReadyCalls >>

gateVars == << webglSupported, probes, returned, widgets >>

layoutVars == << layout >>

swipeVars == << swipeEnabled, startX, endX, isDragging, swipeCalls, gesture >>

keyboardVars == << keyboardMounted, keyboardEnabled, onNext, onPrev, listeners,
                  lastKey, keyCount >>

sweepVars == << sweep >>

batchVars == << pendingIndex, pendingDirection >>

listVars == << list >>

otherVars == << sweepVars, batchVars, listVars >>

inputVars == << layoutVars, swipeVars, keyboardVars, otherVars >>

machineVars == << displayedIndex, targetIndex, animationDirection, prevIndex,
                  isAnimating, progress, currentTexture, nextTexture,
                  nextPlaneVisible, rotationAxis, rotationAngle, pivotRotation,
                  tileRotation, uShowNext, uAberrationAmount >>

controlVars == << currentIndex, direction, nextCalls, prevCalls, goToCalls,
                  earlyCalls, visited >>

vars == << style, initialSlide, aberrationIntensity, currentIndex, direction,
           isReady, displayedIndex, targetIndex, animationDirection, prevIndex,
           isAnimating, progress, currentTexture, nextTexture, nextPlaneVisible,
           rotationAxis, rotationAngle, pivotRotation, tileRotation, uShowNext,
           uAberrationAmount, nextCalls, prevCalls, goToCalls, earlyCalls,
           visited, hookVars, loaderVars, gateVars, inputVars >>

\* ------------------------------------------------------- pure functions
Min(a, b) == IF a < b THEN a ELSE b

Abs(a) == IF a < 0 THEN 0 - a ELSE a

\* t < 0.5 ? 4*t*t*t : 1 - pow(-2*t + 2, 3) / 2
easeInOutCubic(t) ==
  IF t < One \div 2
    THEN (4 * t * t * t) \div (One * One)
    ELSE One - (((2 * One - 2 * t) * (2 * One - 2 * t) * (2 * One - 2 * t))
                  \div (2 * One * One))

\* one step from index i in direction dir, wrapping
StepIndex(i, dir) ==
  IF dir = "forward" THEN (i + 1) % NumSlides
                     ELSE (i - 1 + NumSlides) % NumSlides

\* direction === 'next' ? 'forward' : 'backward'
DirOf(d) == IF d = "next" THEN "forward" ELSE "backward"

\* progress after one frame: min(progress + delta * speed, 1)
CubeAdvanceClampedLate(p, delta) ==
  Min(p + (delta * One) \div TransitionDuration, One + 50)

CubeAdvance(p, delta) == Min(p + (delta * One) \div TransitionDuration, One)

CascadeAdvance(p, delta) ==
  Min(p + (delta * AnimationSpeedTenths * CascadeSpeedFactorTenths * One)
            \div (100 * TransitionDuration), One)

GlitchAdvance(p, delta) == Min(p + (delta * One) \div TransitionDuration, One)

\* pow(sin(progress * PI), 0.6) in millionths, tabulated every 0.05
FlattenedCurve(p) ==
  LET table == << 0, 328548, 494299, 622627, 726995, 812252, 880592, 933101,
                  970340, 992595, 1000000, 992595, 970340, 933101, 880592,
                  812252, 726995, 622627, 494299, 328548, 0 >>
  IN table[(p \div 50) + 1]

\* flattenedCurve * 0.3 * aberrationIntensity, millionths
Aberration(p, intensity) ==
  (((FlattenedCurve(p) * AberrationBase) \div One) * intensity) \div One

\* ----------------------------------------------------- the machine record
Machine ==
  [ displayedIndex |-> displayedIndex, targetIndex |-> targetIndex,
    animationDirection |-> animationDirection, prevIndex |-> prevIndex,
    isAnimating |-> isAnimating, progress |-> progress,
    currentTexture |-> currentTexture, nextTexture |-> nextTexture,
    nextPlaneVisible |-> nextPlaneVisible, rotationAxis |-> rotationAxis,
    rotationAngle |-> rotationAngle, pivotRotation |-> pivotRotation,
    tileRotation |-> tileRotation, uShowNext |-> uShowNext,
    uAberrationAmount |-> uAberrationAmount ]

SetMachine(m) ==
  /\ displayedIndex' = m.displayedIndex
  /\ targetIndex' = m.targetIndex
  /\ animationDirection' = m.animationDirection
  /\ prevIndex' = m.prevIndex
  /\ isAnimating' = m.isAnimating
  /\ progress' = m.progress
  /\ currentTexture' = m.currentTexture
  /\ nextTexture' = m.nextTexture
  /\ nextPlaneVisible' = m.nextPlaneVisible
  /\ rotationAxis' = m.rotationAxis
  /\ rotationAngle' = m.rotationAngle
  /\ pivotRotation' = m.pivotRotation
  /\ tileRotation' = m.tileRotation
  /\ uShowNext' = m.uShowNext
  /\ uAberrationAmount' = m.uAberrationAmount

RestTiles == [t \in Tiles |-> 0]

\* ------------------------------------------------------------ cube style
\* init effect: first slide on the current plane, pivot reset
CubeInitialize(m, initial) ==
  [m EXCEPT !.currentTexture = initial, !.pivotRotation = 0,
            !.displayedIndex = initial, !.targetIndex = initial]

\* slide-change effect: only the target and the direction are updated
CubeSlideChange(m, index, dir, ready) ==
  IF index # m.targetIndex /\ ready
    THEN [m EXCEPT !.targetIndex = index, !.animationDirection = DirOf(dir)]
    ELSE m

\* next plane placement: axis and signed angle of the quarter turn
CubeRotationAxis(nextIndex, dir) == IF nextIndex % 2 = 0 THEN "x" ELSE "y"

CubeRotationAngle(nextIndex, dir) ==
  IF dir = "forward"
    THEN (IF nextIndex % 2 = 0 THEN 90 ELSE 0 - 90)
    ELSE (IF nextIndex % 2 = 0 THEN 0 - 90 ELSE 90)

CubeStartNextTransition(m, ready) ==
  IF ~ready \/ m.displayedIndex = m.targetIndex
    THEN m
    ELSE LET nextIndex == StepIndex(m.displayedIndex, m.animationDirection)
         IN [m EXCEPT !.pivotRotation = 0,
                      !.rotationAxis = CubeRotationAxis(nextIndex, m.animationDirection),
                      !.rotationAngle = CubeRotationAngle(nextIndex, m.animationDirection),
                      !.currentTexture = m.displayedIndex,
                      !.nextTexture = nextIndex,
                      !.nextPlaneVisible = TRUE,
                      !.isAnimating = TRUE,
                      !.progress = 0]

\* mutant: the completed step lands on the target directly
CubeCommitAtTarget(m) == m.targetIndex

\* the index committed when a step completes
CubeCommitIndex(m) == StepIndex(m.displayedIndex, m.animationDirection)

CubeComplete(m, ready) ==
  LET shown == CubeCommitIndex(m)
      done == [m EXCEPT !.displayedIndex = shown, !.isAnimating = FALSE,
                        !.pivotRotation = 0, !.currentTexture = shown,
                        !.nextPlaneVisible = FALSE]
  IN IF done.displayedIndex # done.targetIndex
       THEN CubeStartNextTransition(done, ready)
       ELSE done

CubeFrame(m, delta, ready) ==
  IF ~ready THEN m
  ELSE
    LET m1 == IF ~m.isAnimating /\ m.displayedIndex # m.targetIndex
                THEN CubeStartNextTransition(m, ready) ELSE m
    IN IF ~m1.isAnimating THEN m1
       ELSE
         LET p == CubeAdvance(m1.progress, delta)
             sign == IF m1.rotationAngle < 0 THEN 0 - 1 ELSE 1
             m2 == [m1 EXCEPT !.progress = p,
                              !.pivotRotation = sign * easeInOutCubic(p)]
         IN IF p >= One THEN CubeComplete(m2, ready) ELSE m2

\* --------------------------------------------------------- cascade style
\* grid init effect: every face of every tile gets the initial texture
CascadeInitialize(m, index) ==
  [m EXCEPT !.currentTexture = index, !.nextTexture = index,
            !.tileRotation = RestTiles]

\* mutant: a request arriving while a step is in flight is dropped
CascadeSlideChangeDropped(m, index, dir, loaded) ==
  IF index # m.targetIndex /\ loaded /\ ~m.isAnimating
    THEN [m EXCEPT !.targetIndex = index, !.animationDirection = DirOf(dir)]
    ELSE m

CascadeSlideChange(m, index, dir, loaded) ==
  IF index # m.targetIndex /\ loaded
    THEN [m EXCEPT !.targetIndex = index, !.animationDirection = DirOf(dir)]
    ELSE m

CascadeStartNextTransition(m, ready) ==
  IF ~ready \/ m.displayedIndex = m.targetIndex
    THEN m
    ELSE LET nextIndex == StepIndex(m.displayedIndex, m.animationDirection)
         IN [m EXCEPT !.nextTexture = nextIndex,
                      !.progress = 0,
                      !.isAnimating = TRUE]

DiagonalIndex(row, col, dir) ==
  IF dir = "forward" THEN col + (GridRows - 1 - row)
                     ELSE (GridCols - 1 - col) + row

MaxDiagonal == (GridCols - 1) + (GridRows - 1)

CubeStartProgress(row, col, dir) ==
  (DiagonalIndex(row, col, dir) * WaveSpread) \div MaxDiagonal

CubeProgress(row, col, dir, p) ==
  LET start == CubeStartProgress(row, col, dir)
  IN IF p > start
       THEN Min(One, ((p - start) * One) \div (One - WaveSpread))
       ELSE 0

TileRotationAtRestAfterWindow(row, col, dir, p) ==
  LET cp == CubeProgress(row, col, dir, p)
  IN IF cp > 0 /\ cp < One
       THEN easeInOutCubic(cp) * (IF dir = "forward" THEN 1 ELSE 0 - 1)
       ELSE 0

\* mesh.rotation.y of one tile for step progress p
TileRotationAt(row, col, dir, p) ==
  LET cp == CubeProgress(row, col, dir, p)
  IN IF cp > 0
       THEN easeInOutCubic(cp) * (IF dir = "forward" THEN 1 ELSE 0 - 1)
       ELSE 0

\* the direction the tile loop lays the wave out with
CascadeWaveDirection(m) == m.animationDirection

CascadeCommitIndex(m) == StepIndex(m.displayedIndex, m.animationDirection)

CascadeComplete(m, ready) ==
  LET shown == CascadeCommitIndex(m)
      done == [m EXCEPT !.displayedIndex = shown, !.tileRotation = RestTiles,
                        !.currentTexture = shown, !.nextTexture = shown,
                        !.progress = 0, !.isAnimating = FALSE]
  IN IF done.displayedIndex # done.targetIndex
       THEN CascadeStartNextTransition(done, ready)
       ELSE done

CascadeFrame(m, delta, ready) ==
  LET m1 == IF ~m.isAnimating /\ m.displayedIndex # m.targetIndex
              THEN CascadeStartNextTransition(m, ready) ELSE m
  IN IF ~m1.isAnimating \/ ~ready THEN m1
     ELSE
       LET p == CascadeAdvance(m1.progress, delta)
           m2 == [m1 EXCEPT !.progress = p]
       IN IF p >= One THEN CascadeComplete(m2, ready)
          ELSE [m2 EXCEPT !.tileRotation =
                  [t \in Tiles |->
                     TileRotationAt(t[1], t[2], CascadeWaveDirection(m2), p)]]

\* ---------------------------------------------------------- glitch style
\* "update textures when ready" effect
GlitchTexturesReady(m, index) ==
  [m EXCEPT !.currentTexture = index, !.nextTexture = index,
            !.prevIndex = index]

\* mutant: the transition brings in the slide next to the previous one
GlitchIncomingNeighbour(prev, index) == StepIndex(prev, "forward")

\* the texture a transition brings in
GlitchIncoming(prev, index) == index

\* mutant: a transition in flight is left running and only retargeted
GlitchSlideChangeKeepsRunning(m, index, ready) ==
  IF ~ready \/ index = m.prevIndex
    THEN m
    ELSE IF m.isAnimating
      THEN [m EXCEPT !.prevIndex = index]
      ELSE [m EXCEPT !.currentTexture = m.prevIndex,
                     !.nextTexture = GlitchIncoming(m.prevIndex, index),
                     !.uAberrationAmount = 0,
                     !.progress = 0,
                     !.isAnimating = TRUE,
                     !.prevIndex = index]

\* mutant: the effect does not wait for the textures
GlitchSlideChangeUnguarded(m, index, ready) ==
  IF index = m.prevIndex
    THEN m
    ELSE [m EXCEPT !.currentTexture = m.prevIndex,
                   !.nextTexture = GlitchIncoming(m.prevIndex, index),
                   !.uAberrationAmount = 0,
                   !.progress = 0,
                   !.isAnimating = TRUE,
                   !.prevIndex = index]

\* slide-change effect: sets up a transition from the previous request
GlitchSlideChange(m, index, ready) ==
  IF ~ready \/ index = m.prevIndex
    THEN m
    ELSE [m EXCEPT !.currentTexture = m.prevIndex,
                   !.nextTexture = GlitchIncoming(m.prevIndex, index),
                   !.uAberrationAmount = 0,
                   !.progress = 0,
                   !.isAnimating = TRUE,
                   !.prevIndex = index]

GlitchFrame(m, delta, ready, index, intensity) ==
  IF ~ready \/ ~m.isAnimating THEN m
  ELSE
    LET p == GlitchAdvance(m.progress, delta)
        m1 == [m EXCEPT !.progress = p,
                        !.uShowNext = IF p >= SwapPoint THEN 1 ELSE 0,
                        !.uAberrationAmount = Aberration(p, intensity)]
    IN IF p >= One
         THEN [m1 EXCEPT !.isAnimating = FALSE, !.currentTexture = index,
                         !.nextTexture = index, !.uShowNext = 0,
                         !.uAberrationAmount = 0]
         ELSE m1

\* glitch.frag main: the texture the fragment colour is taken from
VisibleTexture ==
  IF uAberrationAmount < ShaderBypassThreshold THEN currentTexture
  ELSE IF uShowNext = 0 THEN currentTexture ELSE nextTexture

\* ---------------------------------------------------------- useSlideshow
canGoNextAlways == TRUE

canGoNext == loop \/ currentIndex < NumSlides - 1

canGoPrev == loop \/ currentIndex > 0

NextSlideClamped(i) == IF i >= NumSlides - 1 THEN i ELSE i + 1

NextSlide(i) == IF i >= NumSlides - 1 THEN 0 ELSE i + 1

PrevSlide(i) == IF i <= 0 THEN NumSlides - 1 ELSE i - 1

GoToDirectionInclusive(index, i) == IF index >= i THEN "next" ELSE "prev"

GoToDirection(index, i) == IF index > i THEN "next" ELSE "prev"

OnSlideChangeEffectStale(calls, index) == Append(calls, currentIndex)

\* the body of the effect on [currentIndex, onSlideChange]
OnSlideChangeEffect(calls, index) == Append(calls, index)

\* the effect runs after a render in which currentIndex changed
NotifySlideChange(index) ==
  IF onSlideChange # "none" /\ index # currentIndex
    THEN OnSlideChangeEffect(onSlideChangeCalls, index)
    ELSE onSlideChangeCalls

CallsMade == nextCalls + prevCalls + goToCalls

\* the effects a re-render with new props runs in the mounted style
SlideChangeEffects(index, dir) ==
  IF index = currentIndex /\ dir = direction THEN Machine
  ELSE IF style = "cube" THEN CubeSlideChange(Machine, index, dir, isReady)
  ELSE IF style = "cascade" THEN CascadeSlideChange(Machine, index, dir, isReady)
  ELSE IF index = currentIndex THEN Machine
  ELSE GlitchSlideChange(Machine, index, isReady)

\* the render that follows a change of currentIndex or direction
NavigateTo(index, dir) ==
  /\ currentIndex' = index
  /\ direction' = dir
  /\ SetMachine(SlideChangeEffects(index, dir))
  /\ earlyCalls' = (earlyCalls \/ ~isReady)
  /\ onSlideChangeCalls' = NotifySlideChange(index)
  /\ UNCHANGED << style, initialSlide, aberrationIntensity, isReady, visited,
                  loop, onSlideChange, loaderVars, gateVars >>

Navigate(index, dir) == NavigateTo(index, dir) /\ UNCHANGED inputVars

\* the dependencies [canGoNext, totalSlides] of next at a given index
NextIdentity(index) == << loop \/ index < NumSlides - 1, NumSlides >>

\* the autoplay effect on [autoPlay, autoPlayInterval, isPaused, next]: the
\* interval after a render with the given index and paused state
AutoplayEffect(index, paused) ==
  IF paused = isPaused /\ NextIdentity(index) = NextIdentity(currentIndex)
    THEN intervalAge
    ELSE IF autoPlay /\ ~paused THEN 0 ELSE NoTimer

\* the render after a navigation call re-runs the autoplay effect
NavigateRender ==
  /\ intervalAge' = AutoplayEffect(currentIndex', isPaused)
  /\ UNCHANGED << autoPlay, isPaused, pauseOnHover, activeFor >>

next ==
  /\ CallsMade < MaxCalls
  /\ IF canGoNext
       THEN Navigate(NextSlide(currentIndex), "next")
       ELSE Navigate(currentIndex, direction)
  /\ nextCalls' = nextCalls + 1
  /\ NavigateRender
  /\ UNCHANGED << prevCalls, goToCalls >>

prev ==
  /\ CallsMade < MaxCalls
  /\ IF canGoPrev
       THEN Navigate(PrevSlide(currentIndex), "prev")
       ELSE Navigate(currentIndex, direction)
  /\ prevCalls' = prevCalls + 1
  /\ NavigateRender
  /\ UNCHANGED << nextCalls, goToCalls >>

goTo(index) ==
  /\ CallsMade < MaxCalls
  /\ IF index < 0 \/ index >= NumSlides
       THEN Navigate(currentIndex, direction)
       ELSE Navigate(index, GoToDirection(index, currentIndex))
  /\ goToCalls' = goToCalls + 1
  /\ NavigateRender
  /\ UNCHANGED << nextCalls, prevCalls >>

\* the value of the currentIndex state: the queued updaters applied in order
IndexState == IF pendingIndex = NoPending THEN currentIndex ELSE pendingIndex

DirectionState == IF pendingIndex = NoPending THEN direction ELSE pendingDirection

\* a call of next() or prev() through the closure of the last render, the
\* component not rendered again yet: the guard reads the rendered index, the
\* updater the latest state
QueueCall(can, index, dir) ==
  /\ CallsMade < MaxCalls
  /\ pendingIndex' = (IF can THEN index ELSE IndexState)
  /\ pendingDirection' = (IF can THEN dir ELSE DirectionState)
  /\ UNCHANGED << style, initialSlide, aberrationIntensity, isReady,
                  machineVars, currentIndex, direction, earlyCalls, visited,
                  hookVars, loaderVars, gateVars, layoutVars, swipeVars,
                  keyboardVars, sweepVars, listVars >>

nextQueued ==
  /\ QueueCall(canGoNext, NextSlide(IndexState), "next")
  /\ nextCalls' = nextCalls + 1
  /\ UNCHANGED << prevCalls, goToCalls >>

prevQueued ==
  /\ QueueCall(canGoPrev, PrevSlide(IndexState), "prev")
  /\ prevCalls' = prevCalls + 1
  /\ UNCHANGED << nextCalls, goToCalls >>

\* the render that applies the queued updaters
Render ==
  /\ pendingIndex # NoPending
  /\ NavigateTo(pendingIndex, pendingDirection)
  /\ NavigateRender
  /\ pendingIndex' = NoPending
  /\ pendingDirection' = "next"
  /\ UNCHANGED << nextCalls, prevCalls, goToCalls, layoutVars, swipeVars,
                  keyboardVars, sweepVars, listVars >>

\* pause and resume, with the render that re-runs the autoplay effect
SetPaused(paused) ==
  /\ paused # isPaused
  /\ isPaused' = paused
  /\ intervalAge' = AutoplayEffect(currentIndex, paused)
  /\ activeFor' = 0
  /\ UNCHANGED << style, initialSlide, aberrationIntensity, isReady,
                  machineVars, controlVars, loop, onSlideChange,
                  onSlideChangeCalls, autoPlay, pauseOnHover, loaderVars,
                  gateVars, inputVars >>

pause == pauseOnHover /\ SetPaused(TRUE)

resume == SetPaused(FALSE)

\* one unit of time passes and the live interval does not expire
Wait ==
  /\ intervalAge # NoTimer
  /\ intervalAge + 1 < IntervalTicks
  /\ intervalAge' = intervalAge + 1
  /\ activeFor' = (activeFor + 1) % IntervalTicks
  /\ UNCHANGED << style, initialSlide, aberrationIntensity, isReady,
                  machineVars, controlVars, loop, onSlideChange,
                  onSlideChangeCalls, autoPlay, isPaused, pauseOnHover, loaderVars,
                  gateVars, inputVars >>

\* one unit of time passes and the live interval expires: setInterval calls next
IntervalFires ==
  /\ intervalAge # NoTimer
  /\ intervalAge + 1 = IntervalTicks
  /\ CallsMade < MaxCalls
  /\ IF canGoNext
       THEN Navigate(NextSlide(currentIndex), "next")
       ELSE Navigate(currentIndex, direction)
  /\ nextCalls' = nextCalls + 1
  /\ intervalAge' = 0
  /\ activeFor' = (activeFor + 1) % IntervalTicks
  /\ UNCHANGED << prevCalls, goToCalls, autoPlay, isPaused, pauseOnHover >>

\* a render of the host that passes a new onSlideChange function: the effect
\* on [currentIndex, onSlideChange] runs again with the current index
SetOnSlideChange ==
  /\ onSlideChange # "none"
  /\ Len(onSlideChangeCalls) <= MaxCalls
  /\ onSlideChange' = (IF onSlideChange = "f" THEN "g" ELSE "f")
  /\ onSlideChangeCalls' = OnSlideChangeEffect(onSlideChangeCalls, currentIndex)
  /\ UNCHANGED << style, initialSlide, aberrationIntensity, currentIndex,
                  direction, isReady, nextCalls, prevCalls, goToCalls,
                  earlyCalls, visited, loop, autoplayVars, machineVars,
                  loaderVars, gateVars, inputVars >>

\* --------------------------------------------------------- load barrier
\* Promise.all(loadPromises).then: textures stored, isReady set, the loaded
\* tree rendered and its effects run
LoadedMachine ==
  IF style = "cube"
    THEN CubeSlideChange(CubeInitialize(Machine, initialSlide),
                         currentIndex, direction, TRUE)
  ELSE IF style = "cascade" THEN CascadeInitialize(Machine, currentIndex)
  ELSE GlitchSlideChange(GlitchTexturesReady(Machine, currentIndex),
                         currentIndex, TRUE)

LoadComplete ==
  /\ ~isReady
  /\ isReady' = TRUE
  /\ SetMachine(LoadedMachine)
  /\ UNCHANGED << style, initialSlide, aberrationIntensity, currentIndex,
                  direction, nextCalls, prevCalls, goToCalls, earlyCalls,
                  visited, hookVars, loaderVars, gateVars, inputVars >>

\* ------------------------------------------------------------- useFrame
FrameResult(delta) ==
  IF style = "cube" THEN CubeFrame(Machine, delta, isReady)
  ELSE IF style = "cascade" THEN CascadeFrame(Machine, delta, isReady)
  ELSE GlitchFrame(Machine, delta, isReady, currentIndex, aberrationIntensity)

useFrame(delta) ==
  LET m == FrameResult(delta)
  IN /\ SetMachine(m)
     /\ visited' = IF m.displayedIndex # displayedIndex
                     THEN Append(visited, m.displayedIndex) ELSE visited
     /\ UNCHANGED << style, initialSlide, aberrationIntensity, currentIndex,
                     direction, isReady, nextCalls, prevCalls, goToCalls,
                     earlyCalls, hookVars, loaderVars, gateVars, inputVars >>

Frame == \E delta \in Deltas : useFrame(delta)

\* ------------------------------------------------------- texture loader
\* A texture is named by the run of the load effect that created it and the
\* position of its slide; colour is its fill when it is a placeholder.
SlideKinds ==
  [ image : {"none", "ok", "broken"},
    backgroundColor : DeclaredColours \cup {NoColour} ]

Pending == [ run |-> 0 - 1, slide |-> 0 - 1, kind |-> "pending", colour |-> NoColour ]

ImageTexture(r, i) == [ run |-> r, slide |-> i, kind |-> "image", colour |-> NoColour ]

CanvasTexture(r, i, fill) ==
  [ run |-> r, slide |-> i, kind |-> "placeholder", colour |-> fill ]

\* ctx.fillStyle = slide.backgroundColor || '#333'
BackgroundOrGrey(slide) ==
  IF slide.backgroundColor = NoColour THEN Grey ELSE slide.backgroundColor

\* the else branch of the promise executor: a slide without image
NoImage(st, r, i) == CanvasTexture(r, i, BackgroundOrGrey(slides[i]))

OnLoad(st, r, i) == ImageTexture(r, i)

OnErrorNeverResolves(st, r, i) == Pending

\* img.onerror / the loader's error callback
OnError(st, r, i) ==
  IF st = "glitch"
    THEN CanvasTexture(r, i, BackgroundOrGrey(slides[i]))
    ELSE CanvasTexture(r, i, Grey)

NotStarted ==
  [ started |-> FALSE, outcome |-> [i \in LoadList |-> Pending],
    order |-> << >>, resolved |-> FALSE ]

RECURSIVE ExecutorOrder(_)
\* the positions whose promise the executor resolves at once, in list order
ExecutorOrder(i) ==
  IF i >= LoadSlides THEN << >>
  ELSE IF slides[i].image = "none" THEN << i >> \o ExecutorOrder(i + 1)
  ELSE ExecutorOrder(i + 1)

\* slides.map(slide => new Promise(...)): one run of the load effect
StartLoad(st, r) ==
  [ started |-> TRUE,
    outcome |-> [i \in LoadList |->
                   IF slides[i].image = "none" THEN NoImage(st, r, i) ELSE Pending],
    order |-> ExecutorOrder(0),
    resolved |-> FALSE ]

Settled(load) == { load.order[k] : k \in 1 .. Len(load.order) }

AllSettled(load) == \A i \in LoadList : load.outcome[i] # Pending

PromiseAllByCompletion(load) == [k \in 1 .. LoadSlides |-> load.outcome[load.order[k]]]

\* the value Promise.all resolves with
PromiseAll(load) == [k \in 1 .. LoadSlides |-> load.outcome[k - 1]]

Held == { textureData[k] : k \in 1 .. Len(textureData) }

Created ==
  { loads[r].outcome[i] : r \in Runs, i \in LoadList } \ {Pending}

\* the cleanup function of the load effect (the glitch effect returns none)
CleanupDisposed(st) == IF st = "glitch" THEN disposed ELSE disposed \cup Held

CleanupTextureData(st) == IF st = "glitch" THEN textureData ELSE << >>

onload(r, i) ==
  /\ loads[r].started
  /\ slides[i].image = "ok"
  /\ i \notin Settled(loads[r])
  /\ loads' = [loads EXCEPT ![r].outcome[i] = OnLoad(style, r, i),
                            ![r].order = Append(@, i)]
  /\ UNCHANGED << style, initialSlide, aberrationIntensity, isReady,
                  machineVars, controlVars, hookVars, mounted, slides,
                  textureData, disposed, onReadyCalls, gateVars, inputVars >>

onerror(r, i) ==
  /\ loads[r].started
  /\ slides[i].image = "broken"
  /\ i \notin Settled(loads[r])
  /\ loads' = [loads EXCEPT ![r].outcome[i] = OnError(style, r, i),
                            ![r].order = Append(@, i)]
  /\ UNCHANGED << style, initialSlide, aberrationIntensity, isReady,
                  machineVars, controlVars, hookVars, mounted, slides,
                  textureData, disposed, onReadyCalls, gateVars, inputVars >>

\* Promise.all(loadPromises).then(...): nothing cancels it, so it also runs
\* for a run that was superseded or whose component is gone
PromiseAllThen(r) ==
  /\ loads[r].started
  /\ ~loads[r].resolved
  /\ AllSettled(loads[r])
  /\ loads' = [loads EXCEPT ![r].resolved = TRUE]
  /\ textureData' = PromiseAll(loads[r])
  /\ isReady' = TRUE
  /\ IF isReady THEN UNCHANGED machineVars ELSE SetMachine(LoadedMachine)
  /\ onReadyCalls' = IF style = "cascade" THEN onReadyCalls ELSE onReadyCalls + 1
  /\ UNCHANGED << style, initialSlide, aberrationIntensity, controlVars,
                  hookVars, mounted, slides, disposed, gateVars, inputVars >>

\* a render with a new slides array: cleanup of the previous run of the
\* effect, then the effect again
SlidesChange ==
  /\ mounted
  /\ ~loads[1].started
  /\ disposed' = CleanupDisposed(style)
  /\ textureData' = CleanupTextureData(style)
  /\ loads' = [loads EXCEPT ![1] = StartLoad(style, 1)]
  /\ UNCHANGED << style, initialSlide, aberrationIntensity, isReady,
                  machineVars, controlVars, hookVars, mounted, slides,
                  onReadyCalls, gateVars, inputVars >>

Unmount ==
  /\ mounted
  /\ mounted' = FALSE
  /\ disposed' = CleanupDisposed(style)
  /\ textureData' = CleanupTextureData(style)
  /\ UNCHANGED << style, initialSlide, aberrationIntensity, isReady,
                  machineVars, controlVars, hookVars, slides, loads,
                  onReadyCalls, gateVars, inputVars >>

Settle == \E r \in Runs, i \in LoadList : onload(r, i) \/ onerror(r, i)

Resolve == \E r \in Runs : PromiseAllThen(r)

\* ------------------------------------------------------ capability gate
\* what the canvas probe meets: a context, no context, or an exception
ProbeOutcomes == {"context", "null", "throws"}

CacheAfterProbeThrowUncached(outcome) ==
  IF outcome = "throws" THEN {} ELSE {outcome = "context"}

\* webglSupported = gl !== null, or false in the catch block
CacheAfterProbe(outcome) == {outcome = "context"}

\* return webglSupported (null is falsy for the caller)
CachedValue(cache) == IF cache = {} THEN FALSE ELSE CHOOSE v \in cache : TRUE

\* one call of isWebGLSupported() when the probe would meet outcome
GateCall(outcome) ==
  IF webglSupported # {}
    THEN [ cache |-> webglSupported, probed |-> << >>,
           value |-> CachedValue(webglSupported) ]
    ELSE [ cache |-> CacheAfterProbe(outcome), probed |-> << outcome >>,
           value |-> CachedValue(CacheAfterProbe(outcome)) ]

SetGate(call) ==
  /\ webglSupported' = call.cache
  /\ probes' = probes \o call.probed
  /\ returned' = Append(returned, call.value)

NotMounted ==
  [ mounted |-> FALSE, webglAvailable |-> TRUE, isLoading |-> TRUE,
    unsupportedCalls |-> 0 ]

\* the effect on [onWebGLUnsupported] of a Slideshow
GateEffect(widget, supported) ==
  [ widget EXCEPT
      !.webglAvailable = supported,
      !.isLoading = IF supported THEN @ ELSE FALSE,
      !.unsupportedCalls = IF supported THEN @ ELSE @ + 1 ]

GateUnchanged ==
  UNCHANGED << style, initialSlide, aberrationIntensity, isReady, machineVars,
               controlVars, hookVars, loaderVars, inputVars >>

\* a host calls the exported function
isWebGLSupported ==
  /\ Len(returned) <= MaxCalls
  /\ \E outcome \in ProbeOutcomes : SetGate(GateCall(outcome))
  /\ UNCHANGED widgets
  /\ GateUnchanged

MountSlideshow(w) ==
  /\ Len(returned) <= MaxCalls
  /\ ~widgets[w].mounted
  /\ \E outcome \in ProbeOutcomes :
       LET call == GateCall(outcome)
       IN /\ SetGate(call)
          /\ widgets' = [widgets EXCEPT
               ![w] = GateEffect([NotMounted EXCEPT !.mounted = TRUE], call.value)]
  /\ GateUnchanged

\* a render that passes a new onWebGLUnsupported function: the effect again
SetOnWebGLUnsupported(w) ==
  /\ Len(returned) <= MaxCalls
  /\ widgets[w].mounted
  /\ \E outcome \in ProbeOutcomes :
       LET call == GateCall(outcome)
       IN /\ SetGate(call)
          /\ widgets' = [widgets EXCEPT ![w] = GateEffect(@, call.value)]
  /\ GateUnchanged

\* handleReady, the onReady of the mounted scene
handleReady(w) ==
  /\ widgets[w].mounted
  /\ widgets[w].webglAvailable
  /\ widgets[w].isLoading
  /\ widgets' = [widgets EXCEPT ![w].isLoading = FALSE]
  /\ UNCHANGED << webglSupported, probes, returned >>
  /\ GateUnchanged

UnmountSlideshow(w) ==
  /\ widgets[w].mounted
  /\ widgets' = [widgets EXCEPT ![w].mounted = FALSE]
  /\ UNCHANGED << webglSupported, probes, returned >>
  /\ GateUnchanged

\* what a Slideshow renders in its stage (fallback prop left undefined)
Presentation(widget) == IF widget.webglAvailable THEN "canvas" ELSE "fallback"

FallbackOpacityUpTo(index, current) == IF index <= current THEN 1 ELSE 0

\* FallbackSlideshow: the opacity style of the slide at position index
FallbackOpacity(index, current) == IF index = current THEN 1 ELSE 0

\* ----------------------------------------------------- geometry helpers
\* Aspect ratios and UV values are exact fractions n/d with d > 0.
Rat(n, d) == [ n |-> n, d |-> d ]

RatEq(a, b) == a.n * b.d = b.n * a.d

RatGt(a, b) == a.n * b.d > b.n * a.d

RatDiv(a, b) == Rat(a.n * b.d, a.d * b.n)

\* (1 - x) / 2
HalfRest(x) == Rat(x.d - x.n, 2 * x.d)

\* Math.round of a non-negative fraction: halves round up
RoundRat(x) == (2 * x.n + x.d) \div (2 * x.d)

Max(a, b) == IF a > b THEN a ELSE b

Aspects == { Rat(n, d) : n \in 1 .. MaxAspect, d \in 1 .. MaxAspect }

\* CubeTransition.calculateCoverUV
calculateCoverUVCube(imageAspect, targetAspect) ==
  IF RatGt(imageAspect, targetAspect)
    THEN [ scaleU |-> RatDiv(targetAspect, imageAspect), scaleV |-> Rat(1, 1),
           offsetU |-> HalfRest(RatDiv(targetAspect, imageAspect)),
           offsetV |-> Rat(0, 1) ]
    ELSE [ scaleU |-> Rat(1, 1), scaleV |-> RatDiv(imageAspect, targetAspect),
           offsetU |-> Rat(0, 1),
           offsetV |-> HalfRest(RatDiv(imageAspect, targetAspect)) ]

calculateCoverUVGlitchUncentred(imageAspect, targetAspect) ==
  IF RatGt(imageAspect, targetAspect)
    THEN [ scaleX |-> RatDiv(targetAspect, imageAspect), scaleY |-> Rat(1, 1),
           offsetX |-> Rat(0, 1), offsetY |-> Rat(0, 1) ]
    ELSE [ scaleX |-> Rat(1, 1), scaleY |-> RatDiv(imageAspect, targetAspect),
           offsetX |-> Rat(0, 1), offsetY |-> Rat(0, 1) ]

\* GlitchTransition.calculateCoverUV
calculateCoverUVGlitch(imageAspect, targetAspect) ==
  IF RatGt(imageAspect, targetAspect)
    THEN [ scaleX |-> RatDiv(targetAspect, imageAspect), scaleY |-> Rat(1, 1),
           offsetX |-> HalfRest(RatDiv(targetAspect, imageAspect)),
           offsetY |-> Rat(0, 1) ]
    ELSE [ scaleX |-> Rat(1, 1), scaleY |-> RatDiv(imageAspect, targetAspect),
           offsetX |-> Rat(0, 1),
           offsetY |-> HalfRest(RatDiv(imageAspect, targetAspect)) ]

calculateGridDimensionsUnclamped(aspectRatio, minTiles) ==
  IF ~RatGt(Rat(1, 1), aspectRatio)
    THEN [ rows |-> minTiles,
           cols |-> Max(2, RoundRat(Rat(minTiles * aspectRatio.n, aspectRatio.d))) ]
    ELSE [ cols |-> minTiles,
           rows |-> Max(2, RoundRat(Rat(minTiles * aspectRatio.d, aspectRatio.n))) ]

\* CascadeTransition.calculateGridDimensions
calculateGridDimensions(aspectRatio, minTiles) ==
  LET safeTiles == Max(2, minTiles)
  IN IF ~RatGt(Rat(1, 1), aspectRatio)
       THEN [ rows |-> safeTiles,
              cols |-> Max(2, RoundRat(Rat(safeTiles * aspectRatio.n, aspectRatio.d))) ]
       ELSE [ cols |-> safeTiles,
              rows |-> Max(2, RoundRat(Rat(safeTiles * aspectRatio.d, aspectRatio.n))) ]

NoLayout ==
  [ fn |-> "none", imageAspect |-> Rat(1, 1), targetAspect |-> Rat(1, 1),
    minTiles |-> 0,
    cube |-> calculateCoverUVCube(Rat(1, 1), Rat(1, 1)),
    glitch |-> calculateCoverUVGlitch(Rat(1, 1), Rat(1, 1)),
    grid |-> [ rows |-> 0, cols |-> 0 ] ]

LayoutUnchanged ==
  UNCHANGED << style, initialSlide, aberrationIntensity, isReady, machineVars,
               controlVars, hookVars, loaderVars, gateVars, swipeVars,
               keyboardVars, otherVars >>

\* a texture of aspect imageAspect is fitted to a plane of aspect targetAspect
CoverFit ==
  /\ \E imageAspect \in Aspects, targetAspect \in Aspects :
       layout' = [NoLayout EXCEPT
                    !.fn = "cover",
                    !.imageAspect = imageAspect,
                    !.targetAspect = targetAspect,
                    !.cube = calculateCoverUVCube(imageAspect, targetAspect),
                    !.glitch = calculateCoverUVGlitch(imageAspect, targetAspect)]
  /\ LayoutUnchanged

\* the cascade grid is sized for a stage of aspect aspectRatio
GridSizing ==
  /\ \E aspectRatio \in Aspects, minTiles \in 0 .. MaxTiles :
       layout' = [NoLayout EXCEPT
                    !.fn = "grid",
                    !.targetAspect = aspectRatio,
                    !.minTiles = minTiles,
                    !.grid = calculateGridDimensions(aspectRatio, minTiles)]
  /\ LayoutUnchanged

\* --------------------------------------------------------------- useSwipe
Swipe == [ startX |-> startX, endX |-> endX, isDragging |-> isDragging ]

SwipeFiredAtThreshold(s, enabled) ==
  IF ~enabled \/ s.startX = NoX \/ s.endX = NoX THEN "none"
  ELSE IF Abs(s.startX - s.endX) >= Threshold
    THEN (IF s.startX - s.endX > 0 THEN "left" ELSE "right")
    ELSE "none"

\* the callback handleSwipeEnd invokes, "none" when it invokes none
SwipeFired(s, enabled) ==
  IF ~enabled \/ s.startX = NoX \/ s.endX = NoX THEN "none"
  ELSE IF Abs(s.startX - s.endX) > Threshold
    THEN (IF s.startX - s.endX > 0 THEN "left" ELSE "right")
    ELSE "none"

\* the refs after handleSwipeEnd
SwipeEnd(s, enabled) ==
  IF ~enabled \/ s.startX = NoX \/ s.endX = NoX THEN s
  ELSE [s EXCEPT !.startX = NoX, !.endX = NoX]

TouchStart(s, enabled, x) == IF enabled THEN [s EXCEPT !.startX = x] ELSE s

TouchMove(s, enabled, x) == IF enabled THEN [s EXCEPT !.endX = x] ELSE s

MouseDown(s, enabled, x) ==
  IF enabled THEN [s EXCEPT !.isDragging = TRUE, !.startX = x] ELSE s

MouseMoveAlways(s, enabled, x) == IF enabled THEN [s EXCEPT !.endX = x] ELSE s

MouseMove(s, enabled, x) ==
  IF enabled /\ s.isDragging THEN [s EXCEPT !.endX = x] ELSE s

\* the refs after handleMouseUp, and the callback it invokes
MouseUp(s, enabled) ==
  IF ~s.isDragging THEN s ELSE SwipeEnd([s EXCEPT !.isDragging = FALSE], enabled)

MouseUpFired(s, enabled) ==
  IF ~s.isDragging THEN "none" ELSE SwipeFired(s, enabled)

\* the refs after handleMouseLeave, and the callback it invokes
MouseLeave(s, enabled) ==
  IF ~s.isDragging THEN s ELSE SwipeEnd([s EXCEPT !.isDragging = FALSE], enabled)

MouseLeaveFired(s, enabled) ==
  IF ~s.isDragging THEN "none" ELSE SwipeFired(s, enabled)

NoGesture ==
  [ kind |-> "none", x0 |-> NoX, x1 |-> NoX, moved |-> FALSE, pure |-> TRUE,
    ended |-> "none" ]

GestureStart(kind, x) ==
  [ kind |-> kind, x0 |-> x, x1 |-> NoX, moved |-> FALSE, pure |-> TRUE,
    ended |-> "none" ]

\* no gesture is open, the named end event was the last to close one
GestureEnd(event) == [NoGesture EXCEPT !.ended = event]

\* a move event of the given kind is added to the events since the start
GestureMove(kind, x) ==
  IF gesture.kind = "none" THEN gesture
  ELSE IF gesture.kind = kind THEN [gesture EXCEPT !.x1 = x, !.moved = TRUE]
  ELSE [gesture EXCEPT !.moved = TRUE, !.pure = FALSE]

SetSwipe(s, fired) ==
  /\ startX' = s.startX
  /\ endX' = s.endX
  /\ isDragging' = s.isDragging
  /\ swipeCalls' = IF fired = "none" THEN swipeCalls ELSE Append(swipeCalls, fired)

SwipeUnchanged ==
  UNCHANGED << style, initialSlide, aberrationIntensity, isReady, machineVars,
               controlVars, hookVars, loaderVars, gateVars, layoutVars,
               keyboardVars, otherVars, swipeEnabled >>

handleTouchStart(x) ==
  /\ Len(swipeCalls) < MaxCalls
  /\ SetSwipe(TouchStart(Swipe, swipeEnabled, x), "none")
  /\ gesture' = GestureStart("touch", x)
  /\ SwipeUnchanged

handleTouchMove(x) ==
  /\ Len(swipeCalls) < MaxCalls
  /\ SetSwipe(TouchMove(Swipe, swipeEnabled, x), "none")
  /\ gesture' = GestureMove("touch", x)
  /\ SwipeUnchanged

handleTouchEnd ==
  /\ Len(swipeCalls) < MaxCalls
  /\ SetSwipe(SwipeEnd(Swipe, swipeEnabled), SwipeFired(Swipe, swipeEnabled))
  /\ gesture' = GestureEnd("touchEnd")
  /\ SwipeUnchanged

handleMouseDown(x) ==
  /\ Len(swipeCalls) < MaxCalls
  /\ SetSwipe(MouseDown(Swipe, swipeEnabled, x), "none")
  /\ gesture' = GestureStart("mouse", x)
  /\ SwipeUnchanged

handleMouseMove(x) ==
  /\ Len(swipeCalls) < MaxCalls
  /\ SetSwipe(MouseMove(Swipe, swipeEnabled, x), "none")
  /\ gesture' = GestureMove("mouse", x)
  /\ SwipeUnchanged

handleMouseUp ==
  /\ Len(swipeCalls) < MaxCalls
  /\ SetSwipe(MouseUp(Swipe, swipeEnabled), MouseUpFired(Swipe, swipeEnabled))
  /\ gesture' = GestureEnd("mouseUp")
  /\ SwipeUnchanged

handleMouseLeave ==
  /\ Len(swipeCalls) < MaxCalls
  /\ SetSwipe(MouseLeave(Swipe, swipeEnabled), MouseLeaveFired(Swipe, swipeEnabled))
  /\ gesture' = GestureEnd("mouseLeave")
  /\ SwipeUnchanged

\* ------------------------------------------------------------ useKeyboard
Keys == {"ArrowRight", "ArrowDown", "ArrowLeft", "ArrowUp", "Enter"}

\* the handleKeyDown closure of a render: identified by its dependencies
handleKeyDown(enabled, next_, prev_) ==
  [ enabled |-> enabled, onNext |-> next_, onPrev |-> prev_ ]

\* the callbacks one handleKeyDown closure invokes for a key
KeyDownCalls(handler, key) ==
  IF ~handler.enabled THEN << >>
  ELSE IF key \in {"ArrowRight", "ArrowDown"} THEN << [fn |-> "onNext", id |-> handler.onNext] >>
  ELSE IF key \in {"ArrowLeft", "ArrowUp"} THEN << [fn |-> "onPrev", id |-> handler.onPrev] >>
  ELSE << >>

\* window dispatches the event to every registered listener
RECURSIVE Dispatch(_, _)
Dispatch(ls, key) ==
  IF ls = {} THEN << >>
  ELSE LET l == CHOOSE h \in ls : TRUE
       IN  KeyDownCalls(l, key) \o Dispatch(ls \ {l}, key)

KeyboardCleanupLeak(ls, handler) == ls

\* the effect's cleanup: removeEventListener of the closure it registered
KeyboardCleanup(ls, handler) == ls \ {handler}

\* the effect body: addEventListener when enabled
KeyboardEffect(ls, enabled, next_, prev_) ==
  IF enabled THEN ls \cup {handleKeyDown(enabled, next_, prev_)} ELSE ls

NoKey == [ key |-> "none", called |-> << >> ]

KeyboardUnchanged ==
  UNCHANGED << style, initialSlide, aberrationIntensity, isReady, machineVars,
               controlVars, hookVars, loaderVars, gateVars, layoutVars, swipeVars,
               otherVars >>

\* a render with new options: the effect's dependencies changed, so the
\* previous cleanup runs and then the effect
KeyboardRender(enabled, next_, prev_) ==
  /\ keyboardMounted
  /\ << enabled, next_, prev_ >> # << keyboardEnabled, onNext, onPrev >>
  /\ keyboardEnabled' = enabled
  /\ onNext' = next_
  /\ onPrev' = prev_
  /\ listeners' = KeyboardEffect(
                    KeyboardCleanup(listeners, handleKeyDown(keyboardEnabled, onNext, onPrev)),
                    enabled, next_, prev_)
  /\ UNCHANGED << keyboardMounted, lastKey, keyCount >>
  /\ KeyboardUnchanged

SetKeyboardEnabled == KeyboardRender(~keyboardEnabled, onNext, onPrev)

SetOnNext == \E w \in Widgets : KeyboardRender(keyboardEnabled, w, onPrev)

SetOnPrev == \E w \in Widgets : KeyboardRender(keyboardEnabled, onNext, w)

UnmountKeyboard ==
  /\ keyboardMounted
  /\ keyboardMounted' = FALSE
  /\ listeners' = KeyboardCleanup(listeners, handleKeyDown(keyboardEnabled, onNext, onPrev))
  /\ UNCHANGED << keyboardEnabled, onNext, onPrev, lastKey, keyCount >>
  /\ KeyboardUnchanged

MountKeyboard ==
  /\ ~keyboardMounted
  /\ keyboardMounted' = TRUE
  /\ listeners' = KeyboardEffect(listeners, keyboardEnabled, onNext, onPrev)
  /\ UNCHANGED << keyboardEnabled, onNext, onPrev, lastKey, keyCount >>
  /\ KeyboardUnchanged

\* a keydown event on window
KeyDown(key) ==
  /\ keyCount < MaxCalls
  /\ keyCount' = keyCount + 1
  /\ lastKey' = [ key |-> key, called |-> Dispatch(listeners, key) ]
  /\ UNCHANGED << keyboardMounted, keyboardEnabled, onNext, onPrev, listeners >>
  /\ KeyboardUnchanged

\* ------------------------------------------- cube steps, any slide count
\* one step from index i in direction dir over a list of n slides
StepIndexOf(i, dir, n) ==
  IF dir = "forward" THEN (i + 1) % n ELSE (i - 1 + n) % n

NoStep == [ from |-> 0 - 1, to |-> 0 - 1, dir |-> "none", axis |-> "none", angle |-> 0 ]

\* the step startNextTransition sets up from the displayed slide
CubeStepOf(displayed, dir, n) ==
  LET nextIndex == StepIndexOf(displayed, dir, n)
  IN [ from |-> displayed, to |-> nextIndex, dir |-> dir,
       axis |-> CubeRotationAxis(nextIndex, dir),
       angle |-> CubeRotationAngle(nextIndex, dir) ]

SweepUnchanged ==
  UNCHANGED << style, initialSlide, aberrationIntensity, isReady, machineVars,
               controlVars, hookVars, loaderVars, gateVars, layoutVars, swipeVars,
               keyboardVars, batchVars, listVars >>

\* a step in the given direction is started and runs to completion
SweepStep(dir) ==
  /\ sweep' = [ sweep EXCEPT !.displayed = StepIndexOf(sweep.displayed, dir, sweep.slides),
                             !.prev = sweep.last,
                             !.last = CubeStepOf(sweep.displayed, dir, sweep.slides) ]
  /\ SweepUnchanged

\* ------------------------------------- useSlideshow, replaceable slide list
\* next() on a hook state l
ListNext(l) ==
  IF ~(l.loop \/ l.currentIndex < l.totalSlides - 1) THEN l
  ELSE [l EXCEPT !.direction = "next",
                 !.currentIndex = IF @ >= l.totalSlides - 1 THEN 0 ELSE @ + 1]

\* prev() on a hook state l
ListPrev(l) ==
  IF ~(l.loop \/ l.currentIndex > 0) THEN l
  ELSE [l EXCEPT !.direction = "prev",
                 !.currentIndex = IF @ <= 0 THEN l.totalSlides - 1 ELSE @ - 1]

\* goTo(index) on a hook state l
ListGoTo(l, index) ==
  IF index < 0 \/ index >= l.totalSlides THEN l
  ELSE [l EXCEPT !.direction = IF index > l.currentIndex THEN "next" ELSE "prev",
                 !.currentIndex = index]

\* a render with a slides prop of n slides: totalSlides = slides.length
ListSlides(l, n) == [l EXCEPT !.totalSlides = n]

ListUnchanged ==
  UNCHANGED << style, initialSlide, aberrationIntensity, isReady, machineVars,
               controlVars, hookVars, loaderVars, gateVars, layoutVars, swipeVars,
               keyboardVars, sweepVars, batchVars >>

ListNextCall == list' = ListNext(list) /\ ListUnchanged

ListPrevCall == list' = ListPrev(list) /\ ListUnchanged

ListGoToCall(index) == list' = ListGoTo(list, index) /\ ListUnchanged

ReplaceSlides(n) == list' = ListSlides(list, n) /\ ListUnchanged

\* ------------------------------------------------- glitch cover crop
\* the source aspect ratio of slide i: every slide a different one
ImageAspect(i) == Rat(i + 1, 2)

\* the aspectRatio prop
TargetAspect == Rat(3, 2)

\* textureData[currentIndex]?.imageAspect ?? aspectRatio, read on every render
currentImageAspect == IF isReady THEN ImageAspect(currentIndex) ELSE TargetAspect

\* uUvScale / uUvOffset as the last render set them (standard mode)
UvCrop == calculateCoverUVGlitch(currentImageAspect, TargetAspect)

\* ------------------------------------------------------- specifications
StepStyleInit == style \in {"cube", "cascade"}

\* the hook without callback, looping
AutoplayPinned ==
  /\ autoPlay = FALSE
  /\ isPaused = FALSE
  /\ pauseOnHover = TRUE
  /\ intervalAge = NoTimer
  /\ activeFor = 0

HookPinned ==
  /\ loop = TRUE
  /\ onSlideChange = "none"
  /\ onSlideChangeCalls = << >>
  /\ AutoplayPinned

\* the loader taken as a whole (LoadComplete), its slides not followed
LoaderPinned ==
  /\ mounted = TRUE
  /\ slides = [i \in LoadList |-> [image |-> "none", backgroundColor |-> NoColour]]
  /\ loads = [r \in Runs |-> NotStarted]
  /\ textureData = << >>
  /\ disposed = {}
  /\ onReadyCalls = 0

GatePinned ==
  /\ webglSupported = {}
  /\ probes = << >>
  /\ returned = << >>
  /\ widgets = [w \in Widgets |-> NotMounted]

LayoutPinned == layout = NoLayout

\* swipe handlers never called
SwipePinned ==
  /\ swipeEnabled = TRUE
  /\ startX = NoX
  /\ endX = NoX
  /\ isDragging = FALSE
  /\ swipeCalls = << >>
  /\ gesture = NoGesture

\* useKeyboard mounted and enabled, no key pressed
KeyboardPinned ==
  /\ keyboardMounted = TRUE
  /\ keyboardEnabled = TRUE
  /\ onNext = 1
  /\ onPrev = 1
  /\ listeners = KeyboardEffect({}, TRUE, 1, 1)
  /\ lastKey = NoKey
  /\ keyCount = 0

\* no step started on the cube of the sweep model
SweepPinned == sweep = [ slides |-> NumSlides, displayed |-> 0, last |-> NoStep, prev |-> NoStep ]

\* every call rendered
BatchPinned == pendingIndex = NoPending /\ pendingDirection = "next"

\* the hook of the list model on the first slide of NumSlides slides
ListPinned ==
  list = [ totalSlides |-> NumSlides, currentIndex |-> 0, direction |-> "next",
           loop |-> TRUE ]

OtherPinned == SweepPinned /\ BatchPinned /\ ListPinned

InputPinned == LayoutPinned /\ SwipePinned /\ KeyboardPinned /\ OtherPinned

MachineInit ==
  /\ style \in Styles
  /\ initialSlide \in InitialSlides
  /\ aberrationIntensity \in (IF style = "glitch" THEN Intensities ELSE {500})
  /\ currentIndex = initialSlide
  /\ direction = "next"
  /\ isReady = FALSE
  /\ displayedIndex = initialSlide
  /\ targetIndex = initialSlide
  /\ animationDirection = "forward"
  /\ prevIndex = initialSlide
  /\ isAnimating = FALSE
  /\ progress = 0
  /\ currentTexture = NoTexture
  /\ nextTexture = NoTexture
  /\ nextPlaneVisible = FALSE
  /\ rotationAxis = "y"
  /\ rotationAngle = 90
  /\ pivotRotation = 0
  /\ tileRotation = RestTiles
  /\ uShowNext = 0
  /\ uAberrationAmount = 0
  /\ nextCalls = 0
  /\ prevCalls = 0
  /\ goToCalls = 0
  /\ earlyCalls = FALSE
  /\ visited = << >>

Init == MachineInit /\ HookPinned /\ LoaderPinned /\ GatePinned /\ InputPinned

Next ==
  \/ next
  \/ prev
  \/ \E index \in (0 - 1) .. NumSlides : goTo(index)
  \/ LoadComplete
  \/ Frame

Spec == Init /\ [][Next]_vars

\* next()/prev() only, on a cube or cascade instance
StepInit == Init /\ StepStyleInit

StepNext ==
  \/ next
  \/ prev
  \/ LoadComplete
  \/ Frame

\* frames keep arriving while the widget is mounted
StepSpec == StepInit /\ [][StepNext]_vars /\ WF_vars(Frame)

\* one cube instance before its textures arrive: the style machine at rest
MachinePinned == MachineInit /\ style = "cube" /\ initialSlide = 0

\* the hook alone, with a callback, looping or not, from any slide
HookInit ==
  /\ MachineInit /\ style = "cube"
  /\ loop \in BOOLEAN
  /\ onSlideChange = "f"
  /\ onSlideChangeCalls = OnSlideChangeEffect(<< >>, initialSlide)
  /\ AutoplayPinned
  /\ LoaderPinned /\ GatePinned /\ InputPinned

HookNext ==
  \/ next
  \/ prev
  \/ \E index \in (0 - 1) .. NumSlides : goTo(index)
  \/ SetOnSlideChange

HookSpec == HookInit /\ [][HookNext]_vars

\* a Slideshow whose detection effect has run, driven through its hook
FallbackInit ==
  /\ MachineInit /\ style = "cube"
  /\ loop \in BOOLEAN
  /\ onSlideChange = "f"
  /\ onSlideChangeCalls = OnSlideChangeEffect(<< >>, initialSlide)
  /\ AutoplayPinned
  /\ LoaderPinned /\ InputPinned
  /\ \E outcome \in ProbeOutcomes :
       /\ webglSupported = CacheAfterProbe(outcome)
       /\ probes = << outcome >>
       /\ returned = << CachedValue(CacheAfterProbe(outcome)) >>
       /\ widgets = [w \in Widgets |->
                       IF w = 1
                         THEN GateEffect([NotMounted EXCEPT !.mounted = TRUE],
                                         CachedValue(CacheAfterProbe(outcome)))
                         ELSE NotMounted]

FallbackSpec == FallbackInit /\ [][HookNext]_vars

\* the load effect of one mounted style instance, first run under way
LoaderInit ==
  /\ MachineInit /\ initialSlide = 0 /\ aberrationIntensity = 500
  /\ HookPinned /\ GatePinned /\ InputPinned
  /\ mounted = TRUE
  /\ slides \in [LoadList -> SlideKinds]
  /\ loads = [r \in Runs |-> IF r = 0 THEN StartLoad(style, 0) ELSE NotStarted]
  /\ textureData = << >>
  /\ disposed = {}
  /\ onReadyCalls = 0

LoaderNext ==
  \/ Settle
  \/ Resolve
  \/ SlidesChange
  \/ Unmount

LoaderSpec == LoaderInit /\ [][LoaderNext]_vars

\* every image request is answered and the microtask queue is drained
LoaderLiveSpec ==
  LoaderInit /\ [][LoaderNext]_vars /\ WF_vars(Settle) /\ WF_vars(Resolve)

GateInit == MachinePinned /\ HookPinned /\ LoaderPinned /\ GatePinned /\ InputPinned

GateNext ==
  \/ isWebGLSupported
  \/ \E w \in Widgets : MountSlideshow(w)
  \/ \E w \in Widgets : SetOnWebGLUnsupported(w)
  \/ \E w \in Widgets : handleReady(w)
  \/ \E w \in Widgets : UnmountSlideshow(w)

GateSpec == GateInit /\ [][GateNext]_vars

\* the hook enabled or not, no handler called yet
SwipeInit ==
  /\ MachinePinned /\ HookPinned /\ LoaderPinned /\ GatePinned /\ LayoutPinned
  /\ KeyboardPinned /\ OtherPinned
  /\ swipeEnabled \in BOOLEAN
  /\ startX = NoX
  /\ endX = NoX
  /\ isDragging = FALSE
  /\ swipeCalls = << >>
  /\ gesture = NoGesture

SwipeNext ==
  \/ \E x \in Positions : handleTouchStart(x)
  \/ \E x \in Positions : handleTouchMove(x)
  \/ handleTouchEnd
  \/ \E x \in Positions : handleMouseDown(x)
  \/ \E x \in Positions : handleMouseMove(x)
  \/ handleMouseUp
  \/ handleMouseLeave

SwipeSpec == SwipeInit /\ [][SwipeNext]_vars

\* the hook just mounted with autoplay on or off, looping or not
AutoplayInit ==
  /\ MachinePinned
  /\ loop \in BOOLEAN
  /\ onSlideChange = "none"
  /\ onSlideChangeCalls = << >>
  /\ autoPlay \in BOOLEAN
  /\ isPaused = FALSE
  /\ pauseOnHover \in BOOLEAN
  /\ intervalAge = (IF autoPlay THEN 0 ELSE NoTimer)
  /\ activeFor = 0
  /\ LoaderPinned /\ GatePinned /\ InputPinned

AutoplayNext ==
  \/ next
  \/ prev
  \/ \E index \in (0 - 1) .. NumSlides : goTo(index)
  \/ pause
  \/ resume
  \/ Wait
  \/ IntervalFires

AutoplaySpec == AutoplayInit /\ [][AutoplayNext]_vars

\* the hook just mounted, enabled or not
KeyboardInit ==
  /\ MachinePinned /\ HookPinned /\ LoaderPinned /\ GatePinned /\ LayoutPinned
  /\ SwipePinned /\ OtherPinned
  /\ keyboardMounted = TRUE
  /\ keyboardEnabled \in BOOLEAN
  /\ onNext = 1
  /\ onPrev = 1
  /\ listeners = KeyboardEffect({}, keyboardEnabled, onNext, onPrev)
  /\ lastKey = NoKey
  /\ keyCount = 0

KeyboardNext ==
  \/ SetKeyboardEnabled
  \/ SetOnNext
  \/ SetOnPrev
  \/ UnmountKeyboard
  \/ MountKeyboard
  \/ \E key \in Keys : KeyDown(key)

KeyboardSpec == KeyboardInit /\ [][KeyboardNext]_vars

\* the hook with calls issued back to back between renders
BatchNext ==
  \/ nextQueued
  \/ prevQueued
  \/ Render

BatchSpec == HookInit /\ [][BatchNext]_vars

\* a cube or cascade instance on a list that does not loop
NoLoopInit ==
  /\ MachineInit /\ style \in {"cube", "cascade"}
  /\ loop = FALSE
  /\ onSlideChange = "none"
  /\ onSlideChangeCalls = << >>
  /\ AutoplayPinned
  /\ LoaderPinned /\ GatePinned /\ InputPinned

NoLoopSpec == NoLoopInit /\ [][Next]_vars

\* the hook mounted on a non-empty list with an in-range initialSlide
ListInit ==
  /\ MachinePinned /\ HookPinned /\ LoaderPinned /\ GatePinned /\ LayoutPinned
  /\ SwipePinned /\ KeyboardPinned /\ SweepPinned /\ BatchPinned
  /\ \E n \in 1 .. MaxSlideCount : \E i \in 0 .. (n - 1) : \E l \in BOOLEAN :
       list = [ totalSlides |-> n, currentIndex |-> i, direction |-> "next",
                loop |-> l ]

ListSpecNext ==
  \/ ListNextCall
  \/ ListPrevCall
  \/ \E index \in (0 - 1) .. MaxSlideCount : ListGoToCall(index)
  \/ \E n \in 1 .. MaxSlideCount : ReplaceSlides(n)

ListSpec == ListInit /\ [][ListSpecNext]_vars

\* a cube at rest on any slide of a list of 2 .. MaxSlideCount slides
SweepInit ==
  /\ MachinePinned /\ HookPinned /\ LoaderPinned /\ GatePinned /\ LayoutPinned
  /\ SwipePinned /\ KeyboardPinned /\ BatchPinned /\ ListPinned
  /\ \E n \in 2 .. MaxSlideCount : \E i \in 0 .. (n - 1) :
       sweep = [ slides |-> n, displayed |-> i, last |-> NoStep, prev |-> NoStep ]

SweepNext ==
  \/ SweepStep("forward")
  \/ SweepStep("backward")

SweepSpec == SweepInit /\ [][SweepNext]_vars

LayoutInit == MachinePinned /\ HookPinned /\ LoaderPinned /\ GatePinned /\ InputPinned

LayoutNext ==
  \/ CoverFit
  \/ GridSizing

LayoutSpec == LayoutInit /\ [][LayoutNext]_vars

\* ----------------------------------------------------------------- claims
StepStyle == style \in {"cube", "cascade"}

\* only next()/prev() calls so far, all of them made on the loaded machine
OnlyStepsOnLoaded == isReady /\ goToCalls = 0 /\ ~earlyCalls

\* (start index + number of next() calls - number of prev() calls) mod N
ExpectedIndex ==
  (initialSlide + nextCalls + (NumSlides - 1) * prevCalls) % NumSlides

\* C1: cube and cascade, loop=true, loaded list: after any finite sequence of
\* next()/prev() calls made at any times relative to the frames, once the
\* calls stop and frames keep arriving the machine becomes and stays idle
\* with displayedIndex = (start + nexts - prevs) mod N.
C1_StepsSettle ==
  <>[]((StepStyle /\ OnlyStepsOnLoaded)
         => (~isAnimating /\ displayedIndex = ExpectedIndex))

C1_Witness ==
  /\ StepStyle /\ OnlyStepsOnLoaded
  /\ nextCalls >= 1 /\ prevCalls >= 1 /\ CallsMade = MaxCalls
  /\ Len(visited) >= 2
  /\ ~isAnimating /\ displayedIndex = ExpectedIndex

\* the displayed indices so far are a walk of single steps in direction dir
\* starting next to index start
DirectWalk(start, dir) ==
  \A i \in 1 .. Len(visited) :
    visited[i] = StepIndex(IF i = 1 THEN start ELSE visited[i - 1], dir)

\* C2: cube and cascade, loop=true: for every sequence of next()/prev()
\* calls, each index on the way from the start index to the final index
\* becomes displayedIndex exactly once and in order: no more indices are
\* displayed than steps were requested, and a run of calls in one direction
\* is displayed as the consecutive indices in that direction.
C2_EachIndexOnceInOrder ==
  (StepStyle /\ OnlyStepsOnLoaded)
    => /\ Len(visited) <= nextCalls + prevCalls
       /\ (prevCalls = 0 => DirectWalk(initialSlide, "forward"))
       /\ (nextCalls = 0 => DirectWalk(initialSlide, "backward"))

\* a frame or a call that leaves the step in flight in flight
StepContinues == isAnimating /\ isAnimating' /\ visited' = visited

SameSign(a, b) == (a >= 0 /\ b >= 0) \/ (a <= 0 /\ b <= 0)

\* C3: retarget invariant, cube and cascade: while a step is in flight its
\* progress is never reset and its geometry keeps the incoming texture, the
\* rotation axis, the rotation sign and the per-tile wave order it started
\* with, whatever index or direction arrives meanwhile.
C3_RetargetKeepsGeometry ==
  [][(StepStyle /\ StepContinues)
       => /\ progress' >= progress
          /\ nextTexture' = nextTexture
          /\ rotationAxis' = rotationAxis
          /\ rotationAngle' = rotationAngle
          /\ \A t \in Tiles :
               /\ SameSign(tileRotation[t], tileRotation'[t])
               /\ Abs(tileRotation'[t]) >= Abs(tileRotation[t])]_vars

\* C4: cube and cascade: the index committed when a step in flight completes
\* is the nextIndex computed when the step started, i.e. the slide on the
\* incoming plane / tile side faces.
C4_CommitIsNextIndex ==
  [][(StepStyle /\ isAnimating /\ displayedIndex' # displayedIndex)
       => displayedIndex' = nextTexture]_vars

\* progress the frame callback computes from the current state
AdvanceOf(delta) ==
  LET p == IF isAnimating THEN progress ELSE 0
  IN IF style = "cube" THEN CubeAdvance(p, delta) ELSE CascadeAdvance(p, delta)

\* C5: cube and cascade: displayedIndex changes only on a frame in which the
\* step's progress reaches 1, then by exactly one position (mod N), and
\* never in response to a navigation call or the load completing.
C5_DisplayedStepsByOne ==
  [][(StepStyle /\ displayedIndex' # displayedIndex)
       => /\ \E delta \in Deltas : AdvanceOf(delta) >= One /\ useFrame(delta)
          /\ displayedIndex' \in { StepIndex(displayedIndex, "forward"),
                                   StepIndex(displayedIndex, "backward") }
          /\ currentIndex' = currentIndex /\ direction' = direction
          /\ CallsMade' = CallsMade /\ isReady' = isReady]_vars

NotAdjacent(i, j) ==
  /\ i # j
  /\ j # StepIndex(i, "forward")
  /\ j # StepIndex(i, "backward")

C5_Witness ==
  /\ StepStyle /\ isReady /\ goToCalls >= 1
  /\ Len(visited) = 1
  /\ NotAdjacent(initialSlide, targetIndex)
  /\ displayedIndex # targetIndex

\* C6 as stated: a glitch transition in flight is a single-slide step.
C6_GlitchSingleSteps ==
  (style = "glitch" /\ isAnimating) => ~NotAdjacent(currentTexture, nextTexture)

\* C6: glitch style does not step through intermediate slides: a request
\* several slides away is carried out as one direct transition whose
\* incoming slide is the requested index itself, and at rest the requested
\* slide is the one on both textures.
C6_GlitchDirectTransition ==
  (style = "glitch" /\ isReady)
    => /\ nextTexture = currentIndex
       /\ prevIndex = currentIndex
       /\ (~isAnimating => currentTexture = currentIndex)

C6_Witness ==
  /\ style = "glitch" /\ isAnimating
  /\ progress > 0 /\ progress < One
  /\ NotAdjacent(currentTexture, nextTexture)
  /\ nextTexture = currentIndex

GlitchInFlight == style = "glitch" /\ isAnimating /\ progress > 0 /\ progress < One

C8_GlitchSwapAtHalf ==
  (style = "glitch" /\ isAnimating)
    => VisibleTexture = (IF progress < SwapPoint THEN currentTexture
                                                 ELSE nextTexture)

\* C9: cube and cascade: once loading has completed the machine's
\* targetIndex is the most recently requested currentIndex, whatever
\* requests were made before the load completed.
C9_TargetIsLatestRequest ==
  (StepStyle /\ isReady) => targetIndex = currentIndex

\* C10: every style: before the load barrier completes no step is started or
\* advanced: isAnimating is false, progress is 0 and the displayed index is
\* the mount-time one, whatever calls and frames occur.
C10_NothingBeforeLoad ==
  ~isReady
    => /\ ~isAnimating
       /\ progress = 0
       /\ displayedIndex = initialSlide
       /\ prevIndex = initialSlide
       /\ visited = << >>
       /\ currentTexture = NoTexture /\ nextTexture = NoTexture

C10_Witness ==
  /\ ~isReady
  /\ CallsMade = MaxCalls
  /\ currentIndex # initialSlide
  /\ ~isAnimating /\ progress = 0 /\ displayedIndex = initialSlide

\* C11: cube and glitch: onReady is invoked exactly once per mounted
\* widget, and never before every slide of the list has settled.
C11_ReadyOnceAfterAllSettled ==
  style # "cascade"
    => /\ onReadyCalls <= 1
       /\ (onReadyCalls >= 1
             => \E r \in Runs : loads[r].resolved /\ AllSettled(loads[r]))

\* C12: once every slide's load has settled, with any mix of loaded, failed
\* and image-less slides, the barrier completes and readiness is signalled:
\* from some point on every run of the load effect has resolved, isReady is
\* set, and (cube, glitch) onReady has been invoked.
C12_BarrierCompletes ==
  <>[](/\ \A r \in Runs : loads[r].started => loads[r].resolved
       /\ isReady
       /\ (style # "cascade" => onReadyCalls >= 1))

C12_Witness ==
  /\ loads[0].resolved /\ isReady
  /\ \E i, j \in LoadList :
       /\ slides[i].image = "broken" /\ loads[0].outcome[i].kind = "placeholder"
       /\ slides[j].image = "ok" /\ loads[0].outcome[j].kind = "image"

\* C13: in every style the resource stored for a slide whose image failed
\* to load is a placeholder filled with the slide's declared
\* backgroundColor, grey only when the slide declares none.
C13_FailedSlideDeclaredColour ==
  \A r \in Runs, i \in LoadList :
    (slides[i].image = "broken" /\ loads[r].outcome[i] # Pending)
      => /\ loads[r].outcome[i].kind = "placeholder"
         /\ loads[r].outcome[i].colour =
              (IF slides[i].backgroundColor = NoColour
                 THEN Grey ELSE slides[i].backgroundColor)

\* C14: whatever the order in which the loads complete, the resource at
\* position i of the loaded list is the one produced for slide i (by one
\* run of the load effect).
C14_LoadedListInSlideOrder ==
  /\ Len(textureData) \in {0, LoadSlides}
  /\ \A k \in 1 .. Len(textureData) :
       /\ textureData[k].slide = k - 1
       /\ textureData[k].run = textureData[1].run
       /\ textureData[k] = loads[textureData[k].run].outcome[k - 1]

C14_Witness ==
  /\ Len(textureData) = LoadSlides
  /\ \E r \in Runs :
       /\ loads[r].resolved /\ textureData[1].run = r
       /\ loads[r].order[1] > loads[r].order[2]

\* C15: after a change of the slide list every resource loaded for the
\* previous list is disposed, and after unmount every loaded resource is,
\* whenever the loads complete.
C15_PreviousResourcesDisposed ==
  \A t \in Created :
    (~mounted \/ (loads[1].started /\ t.run = 0)) => t \in disposed

\* C16: useSlideshow with loop=true: next() moves currentIndex to
\* (i+1) mod N with direction 'next', prev() to (i-1) mod N with direction
\* 'prev'.
C16_LoopingStep ==
  [][loop =>
       /\ next => /\ currentIndex' = (currentIndex + 1) % NumSlides
                  /\ direction' = "next"
       /\ prev => /\ currentIndex' = (currentIndex + NumSlides - 1) % NumSlides
                  /\ direction' = "prev"]_vars

C16_Witness ==
  /\ loop /\ goToCalls = 0
  /\ \/ /\ nextCalls = 0 /\ prevCalls = 1 /\ initialSlide = 0
        /\ currentIndex = NumSlides - 1 /\ direction = "prev"
     \/ /\ prevCalls = 0 /\ nextCalls > 0
        /\ currentIndex < initialSlide /\ direction = "next"

\* C17: useSlideshow with loop=false: canGoNext is false exactly at the
\* last index and canGoPrev exactly at index 0; next() at the last index and
\* prev() at index 0 leave currentIndex and direction as they are and invoke
\* no onSlideChange.
C17_BoundaryWithoutLoop ==
  [][~loop =>
       /\ canGoNext <=> currentIndex # NumSlides - 1
       /\ canGoPrev <=> currentIndex # 0
       /\ (next /\ currentIndex = NumSlides - 1)
            => UNCHANGED << currentIndex, direction, onSlideChangeCalls >>
       /\ (prev /\ currentIndex = 0)
            => UNCHANGED << currentIndex, direction, onSlideChangeCalls >>]_vars

C17_Witness ==
  /\ ~loop /\ currentIndex = NumSlides - 1 /\ direction = "next"
  /\ goToCalls = 1 /\ nextCalls = 1 /\ prevCalls = 0
  /\ initialSlide < NumSlides - 2
  /\ onSlideChangeCalls = << initialSlide, NumSlides - 1 >>

\* C18: goTo(k) from index i: for k in range currentIndex becomes k and
\* direction becomes 'next' exactly when k > i, else 'prev'; for k out of
\* range currentIndex and direction stay and no onSlideChange is invoked.
C18_GoTo ==
  [][\A index \in (0 - 1) .. NumSlides :
       goTo(index)
         => IF 0 <= index /\ index < NumSlides
              THEN /\ currentIndex' = index
                   /\ direction' = (IF index > currentIndex THEN "next" ELSE "prev")
              ELSE UNCHANGED << currentIndex, direction, onSlideChangeCalls >>]_vars

C18_Witness ==
  /\ goToCalls = 1 /\ nextCalls = 0 /\ prevCalls = 0
  /\ currentIndex = initialSlide + 2 /\ direction = "next"
  /\ onSlideChangeCalls = << initialSlide, initialSlide + 2 >>

\* C19: onSlideChange is invoked on mount with the initial index and after
\* every change of currentIndex with the new index, and never with an index
\* other than the current one.
C19_CallbackFollowsIndex ==
  /\ [](/\ onSlideChangeCalls # << >>
        /\ onSlideChangeCalls[1] = initialSlide
        /\ onSlideChangeCalls[Len(onSlideChangeCalls)] = currentIndex)
  /\ [][/\ currentIndex' # currentIndex
             => onSlideChangeCalls' = Append(onSlideChangeCalls, currentIndex')
        /\ onSlideChangeCalls' # onSlideChangeCalls
             => onSlideChangeCalls' = Append(onSlideChangeCalls, currentIndex')]_vars

C19_Witness ==
  /\ Len(onSlideChangeCalls) >= 3
  /\ onSlideChangeCalls[2] # initialSlide
  /\ currentIndex # onSlideChangeCalls[2]
  /\ goToCalls > 0 /\ nextCalls > 0

\* C20: over any sequence of isWebGLSupported() calls the probe is executed
\* at most once and every call returns what the first returned: true when
\* the probe met a context, false when it met none or threw.
C20_ProbeOnceSameAnswer ==
  /\ Len(probes) <= 1
  /\ (returned # << >> => Len(probes) = 1)
  /\ \A k \in 1 .. Len(returned) : returned[k] = (probes = << "context" >>)

C20_Witness ==
  /\ probes = << "throws" >>
  /\ Len(returned) >= 3
  /\ \E w \in Widgets : widgets[w].mounted /\ ~widgets[w].webglAvailable

\* C21: when the gate reports unavailable, onWebGLUnsupported is invoked
\* exactly once over the lifetime of a mounted Slideshow, whatever the
\* re-renders and prop changes; when it reports available, never.
C21_UnsupportedOnce ==
  \A w \in Widgets :
    widgets[w].mounted
      => widgets[w].unsupportedCalls = (IF webglSupported = {FALSE} THEN 1 ELSE 0)

\* C22: fallback presentation: after any sequence of next/prev/goTo exactly
\* the slide at currentIndex has opacity 1 and every other slide opacity 0.
C22_FallbackShowsCurrent ==
  Presentation(widgets[1]) = "fallback"
    => /\ \A i \in Slides :
            FallbackOpacity(i, currentIndex) = (IF i = currentIndex THEN 1 ELSE 0)
       /\ Cardinality({ i \in Slides : FallbackOpacity(i, currentIndex) = 1 }) = 1

C22_Witness ==
  /\ widgets[1].mounted /\ Presentation(widgets[1]) = "fallback"
  /\ goToCalls > 0 /\ nextCalls > 0
  /\ currentIndex > initialSlide
  /\ FallbackOpacity(currentIndex, currentIndex) = 1
  /\ FallbackOpacity(initialSlide, currentIndex) = 0

\* the progress update of the mounted style applied to progress p
StyleAdvance(p, delta) ==
  IF style = "cube" THEN CubeAdvance(p, delta)
  ELSE IF style = "cascade" THEN CascadeAdvance(p, delta)
  ELSE GlitchAdvance(p, delta)

\* a frame on a step in flight whose delta covers the remaining step time
OvershootFrame(delta) ==
  /\ isReady /\ isAnimating
  /\ StyleAdvance(progress, delta) = One
  /\ CallsMade' = CallsMade
  /\ useFrame(delta)

\* C23 as stated: in every style a frame whose delta exceeds the remaining
\* step time leaves progress exactly 1.
C23_OvershootLeavesOne ==
  [][\A delta \in Deltas : OvershootFrame(delta) => progress' = One]_vars

\* C23: in every style 0 <= progress <= 1 in every reachable state; a frame
\* whose delta covers the remaining step time clamps the update to exactly
\* 1 and completes the step in that frame, after which progress is 1 in
\* glitch and in a cube that goes idle, and already reset to 0 in cascade
\* and in a cube that chains into its next step; each new step starts from
\* progress 0 (a step started by a frame is advanced from 0 in that frame).
C23_ProgressClamped ==
  /\ [](0 <= progress /\ progress <= One)
  /\ [][\A delta \in Deltas :
          /\ OvershootFrame(delta)
               => /\ style = "glitch" => (~isAnimating' /\ progress' = One)
                  /\ style = "cube"
                       => /\ visited' # visited
                          /\ progress' = (IF isAnimating' THEN 0 ELSE One)
                  /\ style = "cascade" => (visited' # visited /\ progress' = 0)
          /\ (~isAnimating /\ isAnimating' /\ CallsMade' = CallsMade
                /\ useFrame(delta))
               => progress' \in {0, StyleAdvance(0, delta)}
          /\ (style = "glitch" /\ isAnimating' /\ prevIndex' # prevIndex)
               => progress' = 0]_vars

C23_Witness ==
  /\ style = "cascade" /\ isReady
  /\ ~isAnimating /\ progress = 0
  /\ Len(visited) >= 2
  /\ displayedIndex = targetIndex

\* C24: coverFit(source, target): when source > target, scaleU is
\* target/source, offsetU is (1-scaleU)/2, scaleV is 1 and offsetV is 0;
\* otherwise scaleU is 1, offsetU is 0, scaleV is source/target and offsetV
\* is (1-scaleV)/2; so coverFit(a, a) is scale (1,1), offset (0,0) and
\* coverFit(2, 1) is scaleU 1/2, offsetU 1/4, scaleV 1, offsetV 0; the cube
\* and the glitch implementation return the same values.
C24_CoverFit ==
  layout.fn = "cover"
    => LET a == layout.imageAspect
           b == layout.targetAspect
           uv == layout.cube
           xy == layout.glitch
       IN /\ a.n * b.d > b.n * a.d
               => /\ uv.scaleU.n * (a.n * b.d) = uv.scaleU.d * (b.n * a.d)
                  /\ 2 * uv.offsetU.n * uv.scaleU.d
                       = uv.offsetU.d * (uv.scaleU.d - uv.scaleU.n)
                  /\ uv.scaleV.n = uv.scaleV.d
                  /\ uv.offsetV.n = 0
          /\ a.n * b.d <= b.n * a.d
               => /\ uv.scaleV.n * (b.n * a.d) = uv.scaleV.d * (a.n * b.d)
                  /\ 2 * uv.offsetV.n * uv.scaleV.d
                       = uv.offsetV.d * (uv.scaleV.d - uv.scaleV.n)
                  /\ uv.scaleU.n = uv.scaleU.d
                  /\ uv.offsetU.n = 0
          /\ a.n * b.d = b.n * a.d
               => /\ uv.scaleU.n = uv.scaleU.d /\ uv.scaleV.n = uv.scaleV.d
                  /\ uv.offsetU.n = 0 /\ uv.offsetV.n = 0
          /\ (a.n = 2 * a.d /\ b.n = b.d)
               => /\ 2 * uv.scaleU.n = uv.scaleU.d
                  /\ 4 * uv.offsetU.n = uv.offsetU.d
                  /\ uv.scaleV.n = uv.scaleV.d /\ uv.offsetV.n = 0
          /\ RatEq(uv.scaleU, xy.scaleX) /\ RatEq(uv.scaleV, xy.scaleY)
          /\ RatEq(uv.offsetU, xy.offsetX) /\ RatEq(uv.offsetV, xy.offsetY)

C24_Witness ==
  /\ layout.fn = "cover"
  /\ layout.imageAspect = Rat(2, 1) /\ layout.targetAspect = Rat(1, 1)
  /\ layout.cube.scaleU = Rat(1, 2) /\ layout.glitch.offsetX = Rat(1, 4)

\* C25 as stated: rows and cols are at least 2 and the shorter dimension
\* has exactly minTiles tiles, the longer round(minTiles x aspect) resp.
\* round(minTiles / aspect), for every minTiles.
C25_ShorterIsMinTiles ==
  layout.fn = "grid"
    => LET a == layout.targetAspect
           t == layout.minTiles
       IN /\ layout.grid.rows >= 2 /\ layout.grid.cols >= 2
          /\ a.n >= a.d
               => /\ layout.grid.rows = t
                  /\ layout.grid.cols = (2 * t * a.n + a.d) \div (2 * a.d)
          /\ a.n < a.d
               => /\ layout.grid.cols = t
                  /\ layout.grid.rows = (2 * t * a.d + a.n) \div (2 * a.n)

\* C25: cascade grid sizing: rows and cols are at least 2; with
\* safe = max(2, minTiles) the shorter dimension has exactly safe tiles
\* (rows when aspectRatio >= 1, cols when aspectRatio < 1) and the longer
\* round(safe x aspectRatio) resp. round(safe / aspectRatio), halves rounded
\* up; minTiles=10 gives rows=10, cols=20 at aspect 2 and cols=10, rows=20
\* at aspect 1/2.
C25_GridSizing ==
  layout.fn = "grid"
    => LET a == layout.targetAspect
           t == IF layout.minTiles < 2 THEN 2 ELSE layout.minTiles
       IN /\ layout.grid.rows >= 2 /\ layout.grid.cols >= 2
          /\ a.n >= a.d
               => /\ layout.grid.rows = t
                  /\ layout.grid.cols = (2 * t * a.n + a.d) \div (2 * a.d)
          /\ a.n < a.d
               => /\ layout.grid.cols = t
                  /\ layout.grid.rows = (2 * t * a.d + a.n) \div (2 * a.n)
          /\ (layout.minTiles = 10 /\ a.n = 2 * a.d)
               => (layout.grid.rows = 10 /\ layout.grid.cols = 20)
          /\ (layout.minTiles = 10 /\ 2 * a.n = a.d)
               => (layout.grid.cols = 10 /\ layout.grid.rows = 20)

C25_Witness ==
  /\ layout.fn = "grid"
  /\ layout.minTiles = 1 /\ layout.targetAspect = Rat(1, 2)
  /\ layout.grid.cols = 2 /\ layout.grid.rows = 4

\* the callback a gesture from x0 to x1 is to invoke
SwipeOf(x0, x1) ==
  IF x0 - x1 > Threshold THEN "left"
  ELSE IF x1 - x0 > Threshold THEN "right"
  ELSE "none"

\* a touch or mouse gesture with at least one move of its own kind ends
GestureEnds ==
  /\ gesture.pure /\ gesture.x1 # NoX
  /\ \/ gesture.kind = "touch" /\ handleTouchEnd
     \/ gesture.kind = "mouse" /\ (handleMouseUp \/ handleMouseLeave)

\* C26: with the hook enabled, the end of a gesture that started at x0 and
\* last moved to x1 invokes onSwipeLeft alone when x0 - x1 exceeds the
\* threshold, onSwipeRight alone when x1 - x0 exceeds it and nothing
\* otherwise, for touch and for mouse gestures, whatever gestures came
\* before; with the hook disabled no callback is ever invoked.
C26_SwipeByDistance ==
  /\ [][ (swipeEnabled /\ GestureEnds) =>
           swipeCalls' = (IF SwipeOf(gesture.x0, gesture.x1) = "none"
                            THEN swipeCalls
                            ELSE Append(swipeCalls, SwipeOf(gesture.x0, gesture.x1))) ]_vars
  /\ [](~swipeEnabled => swipeCalls = << >>)

\* a second gesture has ended, one gesture swiped left and one swiped right
C26_Witness ==
  /\ swipeEnabled
  /\ gesture.ended # "none"
  /\ startX = NoX /\ endX = NoX
  /\ Len(swipeCalls) = 2
  /\ swipeCalls[1] # swipeCalls[2]

\* C27: an end event that follows a start event with no move event in
\* between invokes no swipe callback, whatever handler calls came before.
C27_NoMoveNoSwipe ==
  [][ ((handleTouchEnd \/ handleMouseUp) /\ gesture.kind # "none" /\ ~gesture.moved)
        => swipeCalls' = swipeCalls ]_vars

\* C28: a mouse move while no drag is in progress changes nothing and a
\* mouseUp while no drag is in progress invokes nothing; a mouseLeave during
\* a drag does what mouseUp would do; a mouseUp or mouseLeave ends the drag
\* and invokes at most one callback.
C28_MouseDrag ==
  [][ /\ ((\E x \in Positions : handleMouseMove(x)) /\ ~isDragging)
           => UNCHANGED << startX, endX, isDragging, swipeCalls >>
      /\ (handleMouseUp /\ ~isDragging) => swipeCalls' = swipeCalls
      /\ (handleMouseLeave /\ isDragging)
           => SetSwipe(MouseUp(Swipe, swipeEnabled), MouseUpFired(Swipe, swipeEnabled))
      /\ (handleMouseUp \/ handleMouseLeave)
           => (~isDragging' /\ Len(swipeCalls') <= Len(swipeCalls) + 1) ]_vars

\* a mouseLeave has ended a drag with one callback
C28_Witness ==
  /\ swipeEnabled
  /\ ~isDragging
  /\ Len(swipeCalls) = 1
  /\ startX = NoX /\ endX = NoX
  /\ gesture.ended = "mouseLeave"

\* the callback a key is to invoke while the hook is mounted and enabled
KeyCalls(key) ==
  IF key \in {"ArrowRight", "ArrowDown"} THEN << [fn |-> "onNext", id |-> onNext] >>
  ELSE IF key \in {"ArrowLeft", "ArrowUp"} THEN << [fn |-> "onPrev", id |-> onPrev] >>
  ELSE << >>

\* C29: while useKeyboard is mounted and enabled a keydown of ArrowRight or
\* ArrowDown invokes the current onNext exactly once, ArrowLeft or ArrowUp
\* the current onPrev exactly once and any other key nothing; while disabled
\* or unmounted a keydown invokes nothing; at most one listener is ever
\* registered, whatever renders, toggles and remounts came before.
C29_OneCallPerKey ==
  /\ [][ keyCount' # keyCount =>
           lastKey'.called = (IF keyboardMounted /\ keyboardEnabled
                                THEN KeyCalls(lastKey'.key) ELSE << >>) ]_vars
  /\ [](Cardinality(listeners) <= 1)

\* after a toggle and a change of onNext an arrow key invoked the new onNext once
C29_Witness ==
  /\ keyboardMounted /\ keyboardEnabled
  /\ onNext = 2
  /\ lastKey = [ key |-> "ArrowDown", called |-> << [fn |-> "onNext", id |-> 2] >> ]

\* a unit of time passes while autoPlay is on and the hook is not paused
TimePasses == autoPlay /\ ~isPaused /\ ~isPaused' /\ activeFor' # activeFor

\* C30: with autoPlay on and not paused, next() is performed exactly once at
\* the end of each autoPlayInterval elapsed since autoplay became active and
\* at no other moment; with autoPlay off the index changes only in a
\* navigation call.
C30_OneNextPerInterval ==
  /\ [][ TimePasses =>
           nextCalls' = (IF activeFor' = 0 THEN nextCalls + 1 ELSE nextCalls) ]_vars
  /\ [][ (~autoPlay /\ currentIndex' # currentIndex) => CallsMade' = CallsMade + 1 ]_vars

\* the interval set up by resume() expires for the first time
FirstAdvanceAfterResume == TimePasses /\ nextCalls' = nextCalls + 1

\* C31: with pauseOnHover on, no live interval exists while the hook is
\* paused, so no autoplay advance occurs until resume(); resume() starts a
\* fresh interval and autoplay advances at each full autoPlayInterval counted
\* from resume() and at no other moment; with pauseOnHover off the hook is
\* never paused.
C31_PauseResume ==
  /\ [](isPaused => intervalAge = NoTimer)
  /\ [](~pauseOnHover => ~isPaused)
  /\ [][ (isPaused /\ ~isPaused' /\ autoPlay) => (intervalAge' = 0 /\ activeFor' = 0) ]_vars
  /\ [][ FirstAdvanceAfterResume => activeFor' = 0 ]_vars
  /\ [][ (TimePasses /\ activeFor' = 0) => nextCalls' = nextCalls + 1 ]_vars

\* the parts of C31 that do not depend on the interval's period
C31_PausedMeansNoTimer ==
  /\ [](isPaused => intervalAge = NoTimer)
  /\ [](~pauseOnHover => ~isPaused)
  /\ [][ (isPaused /\ ~isPaused' /\ autoPlay) => (intervalAge' = 0 /\ activeFor' = 0) ]_vars

\* a frame has just advanced a cascade step that is still in progress
CascadeStepFrame ==
  /\ style = "cascade"
  /\ \E delta \in Deltas : useFrame(delta)
  /\ isAnimating' /\ progress' > 0

\* the end of a tile's local progress window
CubeEndProgress(row, col, dir) == CubeStartProgress(row, col, dir) + (One - WaveSpread)

QuarterTurn(dir) == IF dir = "forward" THEN One ELSE 0 - One

\* C32 as stated: on every frame of a cascade step a tile whose window
\* [d x 0.7, d x 0.7 + 0.3] does not contain the step progress has rotation 0.
C32_OutsideWindowAtRest ==
  [][ CascadeStepFrame =>
        \A t \in Tiles :
          (\/ progress' < CubeStartProgress(t[1], t[2], animationDirection')
           \/ progress' > CubeEndProgress(t[1], t[2], animationDirection'))
            => tileRotation'[t] = 0 ]_vars

\* C32 amended: on every frame of a cascade step a tile whose window has not
\* begun has rotation 0, a tile whose window has ended holds a full quarter
\* turn in the direction of the step, and a tile inside its window is
\* between the two.
C32_TileWindow ==
  [][ CascadeStepFrame =>
        \A t \in Tiles :
          LET start == CubeStartProgress(t[1], t[2], animationDirection')
              end == CubeEndProgress(t[1], t[2], animationDirection')
              rot == tileRotation'[t]
          IN /\ progress' <= start => rot = 0
             /\ progress' >= end => rot = QuarterTurn(animationDirection')
             /\ (progress' > start /\ progress' < end)
                  => (Abs(rot) <= One /\ rot * QuarterTurn(animationDirection') >= 0) ]_vars

\* mid-step: one tile has finished its quarter turn, another has not begun
C32_Witness ==
  /\ style = "cascade" /\ isAnimating /\ progress > 0
  /\ \E t \in Tiles : progress > CubeEndProgress(t[1], t[2], animationDirection)
                       /\ tileRotation[t] = QuarterTurn(animationDirection)
  /\ \E t \in Tiles : progress < CubeStartProgress(t[1], t[2], animationDirection)
                       /\ tileRotation[t] = 0

\* C33: whenever a loaded cube or cascade machine is idle, its geometry is
\* at rest and shows displayedIndex: in cube the pivot rotation is identity,
\* the next plane is hidden and the front plane carries the texture of
\* displayedIndex; in cascade every tile has rotation 0 and every tile face
\* carries the texture of displayedIndex.
C33_RestPose ==
  (isReady /\ ~isAnimating) =>
    /\ style = "cube" =>
         (pivotRotation = 0 /\ ~nextPlaneVisible /\ currentTexture = displayedIndex)
    /\ style = "cascade" =>
         (tileRotation = RestTiles /\ currentTexture = displayedIndex
            /\ nextTexture = displayedIndex)

\* C34: two successive cube steps in the same direction rotate about
\* different axes, one about y and one about x, for every slide count and
\* across the wrap-around; every step is a quarter turn about x or y.
C34_AxesAlternate ==
  /\ sweep.last # NoStep =>
       (sweep.last.axis \in {"x", "y"} /\ sweep.last.angle \in {90, 0 - 90})
  /\ (sweep.prev # NoStep /\ sweep.prev.dir = sweep.last.dir) =>
       sweep.last.axis # sweep.prev.axis

\* C35: a backward cube step that leaves slide k right after the forward
\* step that arrived at k uses the same axis and the opposite angle.
C35_BackwardRetraces ==
  (sweep.prev.dir = "forward" /\ sweep.last.dir = "backward") =>
    (sweep.last.axis = sweep.prev.axis /\ sweep.last.angle = 0 - sweep.prev.angle)

\* the index passes directly between the two ends of the list
Wraps(from, to) ==
  \/ from = NumSlides - 1 /\ to = 0
  \/ from = 0 /\ to = NumSlides - 1

\* C36: with loop off no next() or prev() call, not even one issued before
\* the component has rendered the previous call, moves the currentIndex
\* state between N-1 and 0.
C36_NoWrapWithoutLoop ==
  [][ ~loop => ~Wraps(IndexState, IndexState') ]_vars

\* C37: with loop off the displayed index of a cube or cascade never passes
\* directly between N-1 and 0, whatever next(), prev() and goTo() requests
\* arrive and whenever they arrive.
C37_DisplayedNeverWraps ==
  [][ (~loop /\ style \in {"cube", "cascade"})
        => ~Wraps(displayedIndex, displayedIndex') ]_vars

\* C38: once the loads of the first and of the second slide list have both
\* resolved, the widget holds the resources of the second list, in whatever
\* order the two finished; and no disposed resource is ever held as a slide
\* texture.
C38_LatestListWins ==
  /\ (mounted /\ loads[0].resolved /\ loads[1].resolved)
       => \A k \in 1 .. Len(textureData) : textureData[k].run = 1
  /\ Held \cap disposed = {}

\* the second half of C38 alone
C38_NoDisposedInstalled == Held \cap disposed = {}

\* C39: after any sequence of next(), prev() and goTo() calls and
\* replacements of the slide list by a non-empty list, currentIndex is a
\* position of the list.
C39_IndexInRange ==
  0 <= list.currentIndex /\ list.currentIndex < list.totalSlides

\* the slide the glitch shader draws: the outgoing one up to the swap point
DrawnSlide == IF progress < SwapPoint THEN currentTexture ELSE nextTexture

\* C40: during a glitch transition the UV crop in effect is the cover-fit of
\* the source aspect ratio of the slide being drawn, the outgoing slide
\* while progress < 0.5 and the incoming one from 0.5 on.
C40_CropOfDrawnSlide ==
  (style = "glitch" /\ isReady /\ isAnimating)
    => UvCrop = calculateCoverUVGlitch(ImageAspect(DrawnSlide), TargetAspect)

\* the second phase of C40 alone
C40_CropOfIncomingSlide ==
  (style = "glitch" /\ isReady /\ isAnimating /\ progress >= SwapPoint)
    => UvCrop = calculateCoverUVGlitch(ImageAspect(DrawnSlide), TargetAspect)

====
